---- MODULE Spec2Model ----
(***************************************************************************)
(* Media pipeline of the DreamQuest player: the Voice Playback Controller  *)
(* (GameInterface.tsx), the Ambient Drone Synthesizer (GameInterface.tsx,  *)
(* App.tsx AMBIENT_DRONE_SCRIPT), the Video Renderer, the Storybook        *)
(* Exporter, the session (turns, story log, save and load) and the PCM     *)
(* codecs (App.tsx, GameInterface.tsx).                                    *)
(*                                                                         *)
(* Scheduling follows the JavaScript event loop: code between two awaits   *)
(* is one atomic step; the continuation of an await on a settled promise   *)
(* is a microtask, run in FIFO order before any further task (event,       *)
(* timer, render commit).                                                  *)
(***************************************************************************)
EXTENDS Integers, Sequences, FiniteSets, TLC

VARIABLES
  \* ---- Voice Playback Controller (GameInterface.tsx 158-277) ----
  mounted,          \* GameInterface is mounted (gameState = PLAYING)
  currentAudio,     \* prop currentAudio: NoAudio or a clip
  voiceEnabled,     \* useState(true)
  isPlayingVoice,   \* useState(false): the speaking flag
  voiceContext,     \* voiceContextRef.current: "null", or its state
  voiceSourceRef,   \* voiceSourceRef.current: NoSource or a source index
  sources,          \* every AudioBufferSourceNode created so far
  awaiting,         \* playAudio calls suspended at `await resume()`
  microtasks,       \* FIFO queue of await continuations of playAudio
  nCalls,           \* number of playAudio invocations so far
  nextClip,         \* number of clips delivered so far
  failed,           \* the playAudio calls (by number) that ended in catch
  mutedByToggle,    \* voice was toggled off while a source was playing,
                    \* and voiceEnabled has been false ever since
  \* ---- Ambient Drone Synthesizer (GameInterface.tsx 65-191) ----
  host,             \* where the drone runs: "component" or "storybook"
  life,             \* "unmounted", "mounting", "mounted" or "gone"
  bgmEnabled,       \* useState(true)
  drone,            \* the AmbientDrone, its audio graph and its timers
  lastCall,         \* the last start()/stop() call and the state before it
  \* ---- App state read by the exporters (App.tsx 190-196) ----
  storyLog,         \* archived entries {narrative, image, audio}
  currentTurn,      \* the current StoryTurn
  currentImage,     \* NoImage or the image of a turn
  \* ---- Video Renderer (App.tsx 398-506) ----
  isRenderingVideo, \* useState(false)
  renders,          \* every call of handleDownloadVideo that got past the guard
  nRequests,        \* number of download-video requests so far
  nDownloads,       \* number of video files handed to the user
  nAlerts,          \* number of "Failed to export video" notices
  \* ---- Session (App.tsx 182-305) ----
  gameState,        \* "SETUP" or "PLAYING"
  gameContext,      \* {theme, characterName, hp, language}
  history,          \* HistoryItem[]
  isProcessing,     \* useState(false)
  pending,          \* the startGame / handleChoice call in flight
  saved,            \* localStorage 'dreamquest_save': NoSave or its value
  lastAlert,        \* the alert() shown by the step just taken, if any
  nTurns,           \* number of story turns generated so far
  nChoices,         \* number of choices made since the session began
  showSaveNotif,    \* GameInterface useState(false): the 'Saved!' notice
  \* ---- GameSetup (GameSetup.tsx 46-68) ----
  name,             \* useState('')
  customTheme,      \* useState('')
  selectedThemeKey, \* useState(DEFAULT_THEMES_KEYS[0])
  language,         \* useState('zh')
  \* ---- Storybook Exporter (App.tsx 307-396) ----
  book,             \* the document exported by the step just taken, if any
  \* ---- PCM codecs (App.tsx 9-49, 127-141; GameInterface.tsx 35-62) ----
  codecIn,          \* the clip given to a codec and the sample rate
  codecOut          \* what the codec applied to codecIn returned

voiceVars == <<mounted, currentAudio, voiceEnabled, isPlayingVoice,
               voiceContext, voiceSourceRef, sources, awaiting, microtasks,
               nCalls, nextClip, failed, mutedByToggle>>

droneVars == <<host, life, bgmEnabled, drone, lastCall>>

appVars == <<storyLog, currentTurn, currentImage>>

videoVars == <<isRenderingVideo, renders, nRequests, nDownloads, nAlerts>>

sessionVars == <<gameState, gameContext, history, isProcessing, pending,
                 saved, lastAlert, nTurns, nChoices, book>>

codecVars == <<codecIn, codecOut>>

notifVars == <<showSaveNotif>>

setupVars == <<name, customTheme, selectedThemeKey, language>>

notVoice == <<droneVars, appVars, videoVars, sessionVars, codecVars, notifVars,
              setupVars>>

notDrone == <<voiceVars, appVars, videoVars, sessionVars, codecVars, notifVars,
              setupVars>>

notVideo == <<voiceVars, droneVars, appVars, sessionVars, codecVars, notifVars,
              setupVars>>

\* The session writes appVars and the currentAudio prop of the voice
\* controller.
notSaveClick == <<mounted, voiceEnabled, isPlayingVoice, voiceContext,
                  voiceSourceRef, sources, awaiting, microtasks, nCalls,
                  nextClip, failed, mutedByToggle, droneVars, videoVars,
                  codecVars>>

\* Only the save button and the unmounting of GameInterface write the
\* 'Saved!' notice.
notSession == <<notSaveClick, notifVars, setupVars>>

notCodec == <<voiceVars, droneVars, appVars, videoVars, sessionVars, notifVars,
              setupVars>>

vars == <<voiceVars, droneVars, appVars, videoVars, sessionVars, codecVars,
          notifVars, setupVars>>

\* ------------------------------------------------------------------ bounds
MaxClips == 3
MaxCalls == 3
MaxBytes == 2
MaxStarts == 3
MaxLog == 1
ShortLen == 20
LongLen == 40
MaxRequests == 2
MaxTurns == 2
MaxSamples == 2

\* ------------------------------------------------------------ PCM clips
\* A RawAudioClip is a base64 string. It is represented by what atob makes
\* of it: b64ok = FALSE when atob throws, else nbytes decoded bytes.
NoAudio == [id |-> 0, b64ok |-> FALSE, nbytes |-> 0]
NoSource == 0

ClipShapes ==
  {[b64ok |-> FALSE, nbytes |-> 0]} \cup
  {[b64ok |-> TRUE, nbytes |-> n] : n \in 0..MaxBytes}

MkClip(i, shape) == [id |-> i, b64ok |-> shape.b64ok, nbytes |-> shape.nbytes]

\* decodeBase64: atob throws on malformed base64.
DecodeBase64Throws(clip) == ~clip.b64ok

\* decodeAudioData: new Int16Array(data.buffer) throws a RangeError when the
\* byte length is odd; ctx.createBuffer(1, 0, 24000) throws NotSupportedError.
FrameCount(nbytes) == nbytes \div 2

DecodeAudioDataThrows(nbytes) == nbytes % 2 # 0 \/ FrameCount(nbytes) = 0

Decodable(clip) == ~DecodeBase64Throws(clip) /\ ~DecodeAudioDataThrows(clip.nbytes)

\* ------------------------------------------- Voice Playback Controller
Playing(srcs) == {i \in 1..Len(srcs) : srcs[i].state = "playing"}

\* source.stop(): a playing source goes silent and its ended event is
\* queued; stop() on a source that already ended does nothing.
StopSource(srcs, r) ==
  IF r # NoSource /\ srcs[r].state = "playing"
  THEN [srcs EXCEPT ![r].state = "ending"]
  ELSE srcs

PlayAudioCatch_KeepsFlag(call, srcs, queue) ==
  /\ failed' = failed \cup {call.n}
  /\ sources' = srcs
  /\ microtasks' = queue
  /\ UNCHANGED <<voiceSourceRef, isPlayingVoice>>

\* catch (e) { console.error(...); setIsPlayingVoice(false); }
PlayAudioCatch(call, srcs, queue) ==
  /\ isPlayingVoice' = FALSE
  /\ failed' = failed \cup {call.n}
  /\ sources' = srcs
  /\ microtasks' = queue
  /\ UNCHANGED voiceSourceRef

\* playAudio from "Stop any previous voice immediately" to the await of
\* decodeAudioData: stop and disconnect the referenced source, decodeBase64,
\* call decodeAudioData (its body runs synchronously), suspend.
AfterResume(call, srcs, queue) ==
  LET stopped == StopSource(srcs, voiceSourceRef) IN
  IF DecodeBase64Throws(call.clip)
  THEN PlayAudioCatch(call, stopped, queue)
  ELSE /\ sources' = stopped
       /\ microtasks' = Append(queue,
            [call |-> call, pc |-> "decoded",
             ok |-> ~DecodeAudioDataThrows(call.clip.nbytes)])
       /\ UNCHANGED <<isPlayingVoice, voiceSourceRef, failed>>

\* playAudio after the await of decodeAudioData: createBufferSource, set
\* onended, voiceSourceRef.current = source, source.start(),
\* setIsPlayingVoice(true); or the catch when decodeAudioData rejected.
AfterDecode(task, queue) ==
  IF ~task.ok
  THEN PlayAudioCatch(task.call, sources, queue)
  ELSE /\ sources' = Append(sources,
            [clip |-> task.call.clip, state |-> "playing",
             cause |-> task.call.cause, n |-> task.call.n])
       /\ voiceSourceRef' = Len(sources) + 1
       /\ isPlayingVoice' = TRUE
       /\ microtasks' = queue
       /\ UNCHANGED failed

\* playAudio up to its first suspension. The AudioContext constructor may
\* throw; a new context is suspended or running, as the platform decides.
PlayAudio(call, srcs) ==
  \/ /\ voiceContext = "null"
     /\ voiceContext' = "null"
     /\ PlayAudioCatch(call, srcs, microtasks)
     /\ UNCHANGED awaiting
  \/ \E st \in (IF voiceContext = "null" THEN {"suspended", "running"}
                ELSE {voiceContext}) :
       /\ voiceContext' = st
       /\ IF st = "suspended"
          THEN /\ awaiting' = Append(awaiting, call)
               /\ sources' = srcs
               /\ UNCHANGED <<isPlayingVoice, voiceSourceRef, microtasks, failed>>
          ELSE /\ AfterResume(call, srcs, microtasks)
               /\ UNCHANGED awaiting

\* The body of the voice effect, run with the committed props and state.
\* srcs and flag are the sources and the speaking flag as the handler and
\* the previous effect's cleanup left them.
VoiceEffect(audio, enabled, srcs, flag, cause) ==
  IF audio = NoAudio
  THEN /\ sources' = StopSource(srcs, voiceSourceRef)
       /\ voiceSourceRef' = NoSource
       /\ isPlayingVoice' = FALSE
       /\ UNCHANGED <<voiceContext, awaiting, microtasks, failed, nCalls>>
  ELSE IF ~enabled
  THEN /\ sources' = srcs
       /\ isPlayingVoice' = flag
       /\ UNCHANGED <<voiceSourceRef, voiceContext, awaiting, microtasks,
                      failed, nCalls>>
  ELSE /\ nCalls < MaxCalls
       /\ nCalls' = nCalls + 1
       /\ PlayAudio([clip |-> audio, cause |-> cause, n |-> nCalls + 1], srcs)

\* The cleanup returned by the previous run of the effect; it exists when
\* that run got past both early returns.
VoiceCleanup(audio, enabled, srcs) ==
  IF audio # NoAudio /\ enabled THEN StopSource(srcs, voiceSourceRef) ELSE srcs

Idle == mounted /\ microtasks = <<>>

Mount ==
  /\ ~mounted
  /\ mounted' = TRUE
  /\ VoiceEffect(currentAudio, voiceEnabled, sources, isPlayingVoice, "clip")
  /\ UNCHANGED <<currentAudio, voiceEnabled, nextClip, mutedByToggle>>
  /\ UNCHANGED notVoice

\* setCurrentAudio(null) in handleChoice / generateMedia, then the commit.
ClearAudio ==
  /\ Idle
  /\ currentAudio # NoAudio
  /\ currentAudio' = NoAudio
  /\ VoiceEffect(NoAudio, voiceEnabled,
                 VoiceCleanup(currentAudio, voiceEnabled, sources),
                 isPlayingVoice, "clip")
  /\ UNCHANGED <<mounted, voiceEnabled, nextClip, mutedByToggle>>
  /\ UNCHANGED notVoice

\* setCurrentAudio(audio) in generateMedia, then the commit.
DeliverAudio ==
  /\ Idle
  /\ currentAudio = NoAudio
  /\ nextClip < MaxClips
  /\ \E shape \in ClipShapes :
       /\ currentAudio' = MkClip(nextClip + 1, shape)
       /\ VoiceEffect(MkClip(nextClip + 1, shape), voiceEnabled,
                      VoiceCleanup(currentAudio, voiceEnabled, sources),
                      isPlayingVoice, "clip")
  /\ nextClip' = nextClip + 1
  /\ UNCHANGED <<mounted, voiceEnabled, mutedByToggle>>
  /\ UNCHANGED notVoice

ToggleVoice ==
  /\ Idle
  /\ IF isPlayingVoice /\ voiceSourceRef # NoSource
     THEN /\ voiceEnabled' = FALSE
          /\ IF voiceEnabled
             THEN VoiceEffect(currentAudio, FALSE,
                    VoiceCleanup(currentAudio, voiceEnabled,
                                 StopSource(sources, voiceSourceRef)),
                    FALSE, "toggle")
             ELSE /\ sources' = StopSource(sources, voiceSourceRef)
                  /\ isPlayingVoice' = FALSE
                  /\ UNCHANGED <<voiceSourceRef, voiceContext, awaiting,
                                 microtasks, failed, nCalls>>
     ELSE /\ voiceEnabled' = ~voiceEnabled
          /\ VoiceEffect(currentAudio, ~voiceEnabled,
                         VoiceCleanup(currentAudio, voiceEnabled, sources),
                         isPlayingVoice, "toggle")
  /\ mutedByToggle' = (~voiceEnabled' /\ (mutedByToggle \/ Playing(sources) # {}))
  /\ UNCHANGED <<mounted, currentAudio, nextClip>>
  /\ UNCHANGED notVoice

\* The context starts: every pending resume() promise is resolved, in order.
ResumeResolved ==
  /\ Idle
  /\ voiceContext = "suspended"
  /\ voiceContext' = "running"
  /\ microtasks' = [i \in 1..Len(awaiting) |->
                      [call |-> awaiting[i], pc |-> "resumed", ok |-> TRUE]]
  /\ awaiting' = <<>>
  /\ UNCHANGED <<mounted, currentAudio, voiceEnabled, isPlayingVoice,
                 voiceSourceRef, sources, nCalls, nextClip, failed,
                 mutedByToggle>>
  /\ UNCHANGED notVoice

ResumeContinuation ==
  /\ microtasks # <<>>
  /\ Head(microtasks).pc = "resumed"
  /\ AfterResume(Head(microtasks).call, sources, Tail(microtasks))
  /\ UNCHANGED <<mounted, currentAudio, voiceEnabled, voiceContext, awaiting,
                 nCalls, nextClip, mutedByToggle>>
  /\ UNCHANGED notVoice

DecodeContinuation ==
  /\ microtasks # <<>>
  /\ Head(microtasks).pc = "decoded"
  /\ AfterDecode(Head(microtasks), Tail(microtasks))
  /\ UNCHANGED <<mounted, currentAudio, voiceEnabled, voiceContext, awaiting,
                 nCalls, nextClip, mutedByToggle>>
  /\ UNCHANGED notVoice

\* The source plays its buffer to the end.
NaturalEnd ==
  /\ Idle
  /\ \E s \in Playing(sources) : sources' = [sources EXCEPT ![s].state = "ending"]
  /\ UNCHANGED <<mounted, currentAudio, voiceEnabled, isPlayingVoice,
                 voiceContext, voiceSourceRef, awaiting, microtasks, nCalls,
                 nextClip, failed, mutedByToggle>>
  /\ UNCHANGED notVoice

\* source.onended = () => setIsPlayingVoice(false)
OnEnded ==
  /\ Idle
  /\ \E s \in 1..Len(sources) :
       /\ sources[s].state = "ending"
       /\ sources' = [sources EXCEPT ![s].state = "ended"]
  /\ isPlayingVoice' = FALSE
  /\ UNCHANGED <<mounted, currentAudio, voiceEnabled, voiceContext,
                 voiceSourceRef, awaiting, microtasks, nCalls, nextClip,
                 failed, mutedByToggle>>
  /\ UNCHANGED notVoice

VoiceInit ==
  /\ mounted = FALSE
  /\ \/ currentAudio = NoAudio /\ nextClip = 0
     \/ \E shape \in ClipShapes :
          currentAudio = MkClip(1, shape) /\ nextClip = 1
  /\ voiceEnabled = TRUE
  /\ isPlayingVoice = FALSE
  /\ voiceContext = "null"
  /\ voiceSourceRef = NoSource
  /\ sources = <<>>
  /\ awaiting = <<>>
  /\ microtasks = <<>>
  /\ nCalls = 0
  /\ failed = {}
  /\ mutedByToggle = FALSE

\* new AmbientDrone(): no oscillator, not playing, master gain 0.
FreshDrone ==
  [isPlaying |-> FALSE, oscs |-> <<>>, nodes |-> <<>>, ramp |-> "none",
   nRamps |-> 0, timers |-> <<>>, nTimers |-> 0, starts |-> 0]

\* The App before any turn, and no render requested.
NoImage == 0

\* useState<StoryTurn | null>(null)
NoTurn == [turn |-> 0, len |-> 0]

\* A property read from a parsed object that does not have it.
Undefined == [undefined |-> TRUE]

\* A JavaScript string value, as opposed to Undefined.
Str(text) == [string |-> text]

\* useState<GameContext>({theme: '', characterName: '', hp: 100, language: 'zh'})
InitialContext == [theme |-> Str(""), characterName |-> "", hp |-> 100, language |-> "zh"]

NoSave ==
  [present |-> FALSE,
   text |-> [gameContext |-> InitialContext, history |-> <<>>, storyLog |-> <<>>,
             currentTurn |-> <<>>]]

NoPending == [op |-> "none", pc |-> "none", turn |-> NoTurn, img |-> "none",
              aud |-> "none", updatedHistory |-> <<>>]

NoBook == [exported |-> FALSE, sections |-> <<>>, of |-> <<>>]

NoOutput == [kind |-> "none"]

AppIdle ==
  /\ storyLog = <<>>
  /\ currentTurn = NoTurn
  /\ currentImage = NoImage

\* The first of DEFAULT_THEMES_KEYS.
FirstThemeKey == "Cyberpunk Detective"

\* useState initial values of GameSetup.
SetupIdle ==
  /\ name = ""
  /\ customTheme = ""
  /\ selectedThemeKey = FirstThemeKey
  /\ language = "zh"

\* useState initial values of App; nothing stored, nothing exported.
SessionIdle ==
  /\ SetupIdle
  /\ gameState = "SETUP"
  /\ gameContext = InitialContext
  /\ history = <<>>
  /\ isProcessing = FALSE
  /\ pending = NoPending
  /\ saved = NoSave
  /\ lastAlert = "none"
  /\ nTurns = 0
  /\ nChoices = 0
  /\ book = NoBook
  /\ showSaveNotif = FALSE

CodecIdle ==
  /\ codecIn = NoOutput
  /\ codecOut = NoOutput

VideoIdle ==
  /\ isRenderingVideo = FALSE
  /\ renders = <<>>
  /\ nRequests = 0
  /\ nDownloads = 0
  /\ nAlerts = 0

DroneIdle ==
  /\ host = "component"
  /\ life = "unmounted"
  /\ bgmEnabled = TRUE
  /\ drone = FreshDrone
  /\ lastCall = [op |-> "none", before |-> FreshDrone]

VoiceNext ==
  \/ Mount
  \/ ClearAudio
  \/ DeliverAudio
  \/ ToggleVoice
  \/ ResumeResolved
  \/ ResumeContinuation
  \/ DecodeContinuation
  \/ NaturalEnd
  \/ OnEnded

InitVoice ==
  VoiceInit /\ DroneIdle /\ AppIdle /\ VideoIdle /\ SessionIdle /\ CodecIdle

SpecVoice == InitVoice /\ [][VoiceNext]_vars

\* C1: at most one narration source is started and not yet stopped or ended.
PlaybackExclusive == Cardinality(Playing(sources)) <= 1

\* C2: once currentAudio is null no narration source plays, and a source of
\* a cleared clip never plays later: every playing source is a source of the
\* clip that is current.
ClearedClipSilent ==
  \A s \in Playing(sources) :
    currentAudio # NoAudio /\ sources[s].clip = currentAudio

\* C3: no narration source is ever started by a playAudio call that was made
\* because voiceEnabled went from false to true with currentAudio unchanged.
NoRestartOnToggle ==
  \A s \in 1..Len(sources) : sources[s].cause # "toggle"

\* C4: after toggleVoice was invoked while a narration source was playing,
\* and for as long as voiceEnabled stays false, no source is playing, the
\* speaking flag is false and voiceEnabled is false.
MutedStaysSilent ==
  mutedByToggle =>
    ~voiceEnabled /\ ~isPlayingVoice /\ Playing(sources) = {}

\* C5: a playAudio call that throws (malformed base64, odd byte count,
\* zero-length buffer, context error) ends in the catch: it starts no source
\* and leaves the speaking flag false; no source ever belongs to a failed
\* call or to an undecodable clip; and whatever failed before, a call whose
\* clip decoded starts a playing source of that clip and sets the flag.
DecodeFailureNonFatal ==
  /\ [](\A s \in 1..Len(sources) :
          sources[s].n \notin failed /\ Decodable(sources[s].clip))
  /\ [][/\ failed' # failed =>
             Len(sources') = Len(sources) /\ ~isPlayingVoice'
        /\ (/\ microtasks # <<>>
            /\ Head(microtasks).pc = "decoded"
            /\ Head(microtasks).ok) =>
             /\ Len(sources') = Len(sources) + 1
             /\ sources'[Len(sources')].state = "playing"
             /\ sources'[Len(sources')].clip = Head(microtasks).call.clip
             /\ isPlayingVoice']_vars

\* A clip plays although an earlier playAudio call failed.
PlaysAfterFailure ==
  \E s \in Playing(sources) : \E f \in failed :
    f < sources[s].n /\ isPlayingVoice

\* The sources that were started and have neither ended nor been stopped,
\* and those whose ended event is still to be delivered.
Audible == Playing(sources)

Ending == {i \in 1..Len(sources) : sources[i].state = "ending"}

\* C24: the speaking flag matches playback: isPlayingVoice is true while a
\* narration source is started and neither ended nor stopped, and it is
\* true only if there is such a source or one whose ended event is still to
\* be delivered; the ended event of a source leaves the flag true while a
\* newer source is playing.
SpeakingFlagMatches ==
  /\ [](Idle => (Audible # {} => isPlayingVoice))
  /\ [](Idle => (isPlayingVoice => Audible \cup Ending # {}))
  /\ [][(\E s \in Ending : sources'[s].state = "ended") =>
          (Audible # {} => isPlayingVoice')]_vars

\* The part of C24 that holds: the flag is never true without a source that
\* is playing or whose ended event is pending.
FlagNeedsSource ==
  Idle => (isPlayingVoice => Audible \cup Ending # {})

\* ------------------------------------------- Ambient Drone Synthesizer
NumVoices == 4

Running(d) == {n \in 1..Len(d.nodes) : d.nodes[n].state = "running"}

InOscs(d) == {d.oscs[i] : i \in 1..Len(d.oscs)}

\* stopNodes(): o.stop(); o.disconnect() for every node of this.oscs, then
\* this.oscs = [].
StopNodesFn(d) ==
  [d EXCEPT
     !.nodes = [n \in 1..Len(d.nodes) |->
                  IF n \in InOscs(d)
                  THEN [d.nodes[n] EXCEPT !.state = "stopped"]
                  ELSE d.nodes[n]],
     !.oscs = <<>>]

\* The forEach of start(): per frequency one voice oscillator and one LFO,
\* both started and pushed to this.oscs, the voice first.
NewNodes(gen) ==
  [k \in 1..(2 * NumVoices) |->
     [gen |-> gen, voice |-> (k + 1) \div 2,
      role |-> IF k % 2 = 1 THEN "osc" ELSE "lfo", state |-> "running"]]

StartFn_NoGuard(d) ==
  LET c == StopNodesFn(d) IN
  [c EXCEPT
     !.nodes = c.nodes \o NewNodes(c.starts + 1),
     !.oscs = [k \in 1..(2 * NumVoices) |-> Len(c.nodes) + k],
     !.ramp = "in",
     !.nRamps = c.nRamps + 1,
     !.starts = c.starts + 1,
     !.isPlaying = TRUE]

\* start()
StartFn(d) ==
  IF d.isPlaying THEN d
  ELSE LET c == StopNodesFn(d) IN
       [c EXCEPT
          !.nodes = c.nodes \o NewNodes(c.starts + 1),
          !.oscs = [k \in 1..(2 * NumVoices) |-> Len(c.nodes) + k],
          !.ramp = "in",
          !.nRamps = c.nRamps + 1,
          !.starts = c.starts + 1,
          !.isPlaying = TRUE]

\* stop(): fade out, setTimeout(() => this.stopNodes(), 2000). A timer
\* remembers the nodes that were live when it was set.
StopFn(d) ==
  IF ~d.isPlaying THEN d
  ELSE [d EXCEPT
          !.ramp = "out",
          !.nRamps = d.nRamps + 1,
          !.timers = Append(d.timers, [live |-> InOscs(d)]),
          !.nTimers = d.nTimers + 1,
          !.isPlaying = FALSE]

\* Node creation is capped: a start() that would create nodes is taken only
\* below the cap.
MayStart(d) == d.isPlaying \/ d.starts < MaxStarts

CallStart ==
  /\ MayStart(drone)
  /\ drone' = StartFn(drone)
  /\ lastCall' = [op |-> "start", before |-> drone]

CallStop ==
  /\ drone' = StopFn(drone)
  /\ lastCall' = [op |-> "stop", before |-> drone]

\* useEffect(() => { bgmRef.current = new AmbientDrone();
\*                   if (bgmEnabled) bgmRef.current.start(); ... }, [])
DroneMount ==
  /\ host = "component"
  /\ life = "unmounted"
  /\ life' = "mounting"
  /\ drone' = IF bgmEnabled THEN StartFn(FreshDrone) ELSE FreshDrone
  /\ lastCall' = [op |-> IF bgmEnabled THEN "start" ELSE "none",
                  before |-> FreshDrone]
  /\ UNCHANGED <<host, bgmEnabled>>
  /\ UNCHANGED notDrone

\* The [bgmEnabled] effect, which also runs in the commit of the mount.
BgmEffect ==
  IF bgmEnabled' THEN CallStart ELSE CallStop

DroneMountToggleEffect ==
  /\ life = "mounting"
  /\ life' = "mounted"
  /\ UNCHANGED <<host, bgmEnabled>>
  /\ BgmEffect
  /\ UNCHANGED notDrone

\* onClick={() => setBgmEnabled(!bgmEnabled)}, then the [bgmEnabled] effect.
BgmClick ==
  /\ host = "component"
  /\ life = "mounted"
  /\ bgmEnabled' = ~bgmEnabled
  /\ BgmEffect
  /\ UNCHANGED <<host, life>>
  /\ UNCHANGED notDrone

\* The cleanup of the mount effect: bgmRef.current?.stop().
DroneUnmount ==
  /\ host = "component"
  /\ life = "mounted"
  /\ life' = "gone"
  /\ CallStop
  /\ UNCHANGED <<host, bgmEnabled>>
  /\ UNCHANGED notDrone

\* let drone = new AmbientDrone() of the exported storybook.
ScriptLoad ==
  /\ host = "storybook"
  /\ life = "unmounted"
  /\ life' = "mounted"
  /\ drone' = FreshDrone
  /\ lastCall' = [op |-> "none", before |-> FreshDrone]
  /\ UNCHANGED <<host, bgmEnabled>>
  /\ UNCHANGED notDrone

\* toggleBgm() of the exported storybook.
ScriptToggleBgm ==
  /\ host = "storybook"
  /\ life = "mounted"
  /\ IF drone.isPlaying THEN CallStop ELSE CallStart
  /\ UNCHANGED <<host, life, bgmEnabled>>
  /\ UNCHANGED notDrone

\* The oldest pending 2000 ms timer fires: this.stopNodes().
TeardownTimer ==
  /\ life \in {"mounted", "gone"}
  /\ drone.timers # <<>>
  /\ drone' = [StopNodesFn(drone) EXCEPT !.timers = Tail(drone.timers)]
  /\ lastCall' = [op |-> "stopNodes", before |-> drone]
  /\ UNCHANGED <<host, life, bgmEnabled>>
  /\ UNCHANGED notDrone

DroneInit ==
  /\ host \in {"component", "storybook"}
  /\ life = "unmounted"
  /\ bgmEnabled = TRUE
  /\ drone = FreshDrone
  /\ lastCall = [op |-> "none", before |-> FreshDrone]

DroneNext ==
  \/ DroneMount
  \/ DroneMountToggleEffect
  \/ BgmClick
  \/ DroneUnmount
  \/ ScriptLoad
  \/ ScriptToggleBgm
  \/ TeardownTimer

VoiceIdle ==
  /\ mounted = FALSE
  /\ currentAudio = NoAudio
  /\ voiceEnabled = TRUE
  /\ isPlayingVoice = FALSE
  /\ voiceContext = "null"
  /\ voiceSourceRef = NoSource
  /\ sources = <<>>
  /\ awaiting = <<>>
  /\ microtasks = <<>>
  /\ nCalls = 0
  /\ nextClip = 0
  /\ failed = {}
  /\ mutedByToggle = FALSE

InitDrone ==
  DroneInit /\ VoiceIdle /\ AppIdle /\ VideoIdle /\ SessionIdle /\ CodecIdle

SpecDrone == InitDrone /\ [][DroneNext]_vars

\* C6: start() on a Playing drone and stop() on a Stopped drone leave the
\* drone, its nodes, its gain ramps and its timers exactly as they were, so
\* start();start() equals start() and stop();stop() equals stop().
DroneIdempotent ==
  /\ drone.isPlaying \in BOOLEAN
  /\ (lastCall.op = "start" /\ lastCall.before.isPlaying) => drone = lastCall.before
  /\ (lastCall.op = "stop" /\ ~lastCall.before.isPlaying) => drone = lastCall.before
  /\ StartFn(StartFn(drone)) = StartFn(drone)
  /\ StopFn(StopFn(drone)) = StopFn(drone)

\* start() was just called on a drone that was already Playing.
StartWhilePlaying ==
  lastCall.op = "start" /\ lastCall.before.isPlaying /\ drone.nRamps > 0

\* C7: the nodes that were live at a stop() are stopped by that stop's timer
\* and by nothing before it; once a timer has fired its nodes are stopped;
\* a Stopped drone with no timer pending has no running oscillator.
TeardownAtTimer ==
  /\ [](drone.timers = <<>> /\ ~drone.isPlaying => Running(drone) = {})
  /\ [][\A i \in 1..Len(drone.timers) : \A n \in drone.timers[i].live :
          (drone.nodes[n].state = "running" /\ drone'.nodes[n].state = "stopped")
            => (i = 1 /\ drone'.timers = Tail(drone.timers))]_vars

\* C23: drone nodes live while Playing: whenever isPlaying is true, the live
\* node set holds the 8 running oscillators (4 voices, 4 LFOs) created by
\* the most recent start(); the teardown timer of an earlier stop() never
\* stops a node created by a later start().
NodesLiveWhilePlaying ==
  /\ [](drone.isPlaying =>
          /\ Len(drone.oscs) = 2 * NumVoices
          /\ \A n \in InOscs(drone) :
               drone.nodes[n].state = "running" /\ drone.nodes[n].gen = drone.starts
          /\ Running(drone) = InOscs(drone))
  /\ [][(drone.timers # <<>> /\ drone'.timers = Tail(drone.timers)) =>
          \A n \in 1..Len(drone.nodes) :
            (drone.nodes[n].state = "running" /\ drone'.nodes[n].state = "stopped")
              => n \in Head(drone.timers).live]_vars

\* The part of C23 that holds: start() leaves exactly its own 8 oscillators
\* running, whatever timers are pending.
StartLeavesEightRunning ==
  (lastCall.op = "start" /\ ~lastCall.before.isPlaying) =>
    /\ Len(drone.oscs) = 2 * NumVoices
    /\ Running(drone) = InOscs(drone)
    /\ \A n \in InOscs(drone) : drone.nodes[n].gen = drone.starts

\* ------------------------------------------------------ Video Renderer
SampleRate == 24000
MinHoldMs == 3000
MsPerChar == 100
PadMs == 500

\* Durations are counted in ticks of 1/24 ms, so that buffer.duration * 1000
\* (frames / 24000 s, in ms) is a whole number of ticks.
TicksPerMs == SampleRate \div 1000

Max(a, b) == IF a >= b THEN a ELSE b

\* buffer.duration * 1000 of a buffer made by createBuffer(1, frames, 24000)
BufferDurationTicks(frames) == (frames * 1000 * TicksPerMs) \div SampleRate

\* Math.max(3000, entry.narrative.length * 100)
SilentDurationTicks(len) == Max(MinHoldMs, len * MsPerChar) * TicksPerMs

\* A narrative is represented by the turn it belongs to and its .length.
\* currentTurn?.narrative || '' of no turn has length 0.
Narrative(t) == [turn |-> t.turn, len |-> t.len]

NarrativeLens == {0, ShortLen, LongLen}

\* Narration of an entry: malformed base64; no byte; an odd byte count; one
\* sample; one second of samples.
VideoClipShapes ==
  {[b64ok |-> FALSE, nbytes |-> 0]} \cup
  {[b64ok |-> TRUE, nbytes |-> n] : n \in {0, 1, 2, 2 * SampleRate}}

EntriesOf(t) ==
  {[narrative |-> [turn |-> t, len |-> l], image |-> img, audio |-> aud] :
     l \in NarrativeLens, img \in {NoImage, t},
     aud \in {NoAudio} \cup {MkClip(t, sh) : sh \in VideoClipShapes}}

\* [...storyLog, {narrative: currentTurn?.narrative || '', image: currentImage,
\*   audio: currentAudio}].filter(s => s.narrative)
FullStory ==
  SelectSeq(
    Append(storyLog, [narrative |-> Narrative(currentTurn), image |-> currentImage,
                      audio |-> currentAudio]),
    LAMBDA e : e.narrative.len > 0)

DoneRender(how) ==
  [pc |-> how, story |-> <<>>, duration |-> 0, painted |-> 0, held |-> 0,
   played |-> 0, recorder |-> "inactive", stopEvent |-> FALSE, onstop |-> FALSE]

StopAndAwait_HandlerLate(r) ==
  [r EXCEPT !.recorder = "inactive", !.stopEvent = TRUE, !.onstop = FALSE,
            !.pc = "stopping"]

\* recorder.stop(); await new Promise(resolve => { recorder.onstop = ... }):
\* the stop event is queued and the handler is set in the same step.
StopAndAwait(r) ==
  [r EXCEPT !.recorder = "inactive", !.stopEvent = TRUE, !.onstop = TRUE,
            !.pc = "stopping"]

VideoAfterDecode_NoInnerCatch(r) ==
  IF Decodable(Head(r.story).audio)
  THEN [r EXCEPT !.duration = BufferDurationTicks(FrameCount(Head(r.story).audio.nbytes))
                              + PadMs * TicksPerMs,
                 !.played = @ + 1,
                 !.pc = "hold"]
  ELSE DoneRender("failed")

\* "Play Audio" of the loop body, after an awaited decode settled.
VideoAfterDecode(r) ==
  IF Decodable(Head(r.story).audio)
  THEN [r EXCEPT !.duration = BufferDurationTicks(FrameCount(Head(r.story).audio.nbytes))
                              + PadMs * TicksPerMs,
                 !.played = @ + 1,
                 !.pc = "hold"]
  ELSE [r EXCEPT !.pc = "hold"]

\* drawTextOverlay, let duration = 3000, then the audio branch.
AfterImage(r) ==
  LET p == [r EXCEPT !.painted = @ + 1, !.duration = MinHoldMs * TicksPerMs] IN
  IF Head(r.story).audio # NoAudio
  THEN [p EXCEPT !.pc = "decode"]
  ELSE [p EXCEPT !.duration = SilentDurationTicks(Head(r.story).narrative.len),
                 !.pc = "hold"]

\* The head of the for loop: the next entry, or the end of the loop.
BeginEntry(r) ==
  IF r.story = <<>> THEN StopAndAwait(r)
  ELSE IF Head(r.story).image # NoImage THEN [r EXCEPT !.pc = "image"]
  ELSE AfterImage(r)

RenderCatch_StillDownloads ==
  /\ nAlerts' = nAlerts + 1
  /\ nDownloads' = nDownloads + 1

\* catch (e) { console.error(...); alert("Failed to export video. " + e) }:
\* the download code after the throw is skipped.
RenderCatch ==
  /\ nAlerts' = nAlerts + 1
  /\ UNCHANGED nDownloads

RenderBusy_Never == FALSE

\* if (isRenderingVideo) return;
RenderBusy == isRenderingVideo

\* handleDownloadVideo up to its first await. Canvas init, the AudioContext,
\* the MediaRecorder constructor and recorder.start() may throw.
HandleDownloadVideo ==
  /\ nRequests < MaxRequests
  /\ nRequests' = nRequests + 1
  /\ IF RenderBusy
     THEN UNCHANGED <<isRenderingVideo, renders, nDownloads, nAlerts>>
     ELSE \E setupOk \in BOOLEAN :
            IF setupOk
            THEN /\ isRenderingVideo' = TRUE
                 /\ renders' = Append(renders,
                      BeginEntry([pc |-> "setup", story |-> FullStory,
                                  duration |-> 0, painted |-> 0, held |-> 0,
                                  played |-> 0, recorder |-> "recording",
                                  stopEvent |-> FALSE, onstop |-> FALSE]))
                 /\ UNCHANGED <<nDownloads, nAlerts>>
            ELSE /\ isRenderingVideo' = FALSE
                 /\ renders' = Append(renders, DoneRender("failed"))
                 /\ RenderCatch
  /\ UNCHANGED notVideo

\* await loadImage(entry.image) settles: drawImage, or the inner catch.
ImageSettled ==
  /\ \E i \in 1..Len(renders) :
       /\ renders[i].pc = "image"
       /\ \E loaded \in BOOLEAN :
            renders' = [renders EXCEPT ![i] = AfterImage(renders[i])]
  /\ UNCHANGED <<isRenderingVideo, nRequests, nDownloads, nAlerts>>
  /\ UNCHANGED notVideo

\* await decodeAudioForVideo(entry.audio, actx) settles.
DecodeSettled ==
  /\ \E i \in 1..Len(renders) :
       /\ renders[i].pc = "decode"
       /\ renders' = [renders EXCEPT ![i] = VideoAfterDecode(renders[i])]
  /\ UNCHANGED <<isRenderingVideo, nRequests, nDownloads, nAlerts>>
  /\ UNCHANGED notVideo

\* await new Promise(r => setTimeout(r, duration)) elapses.
HoldElapsed ==
  /\ \E i \in 1..Len(renders) :
       /\ renders[i].pc = "hold"
       /\ renders' = [renders EXCEPT ![i] =
            BeginEntry([renders[i] EXCEPT !.story = Tail(@), !.held = @ + 1])]
  /\ UNCHANGED <<isRenderingVideo, nRequests, nDownloads, nAlerts>>
  /\ UNCHANGED notVideo

\* The recorder's stop event is dispatched. With the handler set the promise
\* resolves: the blob is downloaded and finally clears the flag.
RecorderStopEvent ==
  /\ \E i \in 1..Len(renders) :
       /\ renders[i].stopEvent
       /\ IF renders[i].onstop
          THEN /\ renders' = [renders EXCEPT ![i] = DoneRender("done")]
               /\ nDownloads' = nDownloads + 1
               /\ isRenderingVideo' = FALSE
          ELSE /\ renders' = [renders EXCEPT ![i].stopEvent = FALSE]
               /\ UNCHANGED <<nDownloads, isRenderingVideo>>
  /\ UNCHANGED <<nRequests, nAlerts>>
  /\ UNCHANGED notVideo

\* The session as a render may find it: a log of up to MaxLog entries and a
\* current turn, each with or without image and narration.
VideoInit ==
  /\ \E n \in 0..MaxLog :
       /\ storyLog \in [1..n -> UNION {EntriesOf(t) : t \in 1..MaxLog}]
       /\ \A t \in 1..n : storyLog[t].narrative.turn = t
       /\ \E cur \in EntriesOf(n + 1) :
            /\ currentTurn = cur.narrative
            /\ currentImage = cur.image
            /\ currentAudio = cur.audio
  /\ VideoIdle

VoiceRest ==
  /\ mounted = FALSE
  /\ voiceEnabled = TRUE
  /\ isPlayingVoice = FALSE
  /\ voiceContext = "null"
  /\ voiceSourceRef = NoSource
  /\ sources = <<>>
  /\ awaiting = <<>>
  /\ microtasks = <<>>
  /\ nCalls = 0
  /\ nextClip = 0
  /\ failed = {}
  /\ mutedByToggle = FALSE

VideoNext ==
  \/ HandleDownloadVideo
  \/ ImageSettled
  \/ DecodeSettled
  \/ HoldElapsed
  \/ RecorderStopEvent

InitVideo == VideoInit /\ VoiceRest /\ DroneIdle /\ SessionIdle /\ CodecIdle

\* Image loads and decodes settle, timers elapse and queued events are
\* dispatched.
SpecVideo ==
  /\ InitVideo
  /\ [][VideoNext]_vars
  /\ WF_vars(ImageSettled)
  /\ WF_vars(DecodeSettled)
  /\ WF_vars(HoldElapsed)
  /\ WF_vars(RecorderStopEvent)

ActiveRenders == {i \in 1..Len(renders) : renders[i].pc \notin {"done", "failed"}}

\* C8: at most one render is in progress, the flag is set exactly while one
\* is, and a request made while a render is in progress creates no render
\* (canvas, audio context, recorder) and changes no state.
RenderExclusive ==
  /\ [](/\ Cardinality(ActiveRenders) <= 1
        /\ isRenderingVideo <=> ActiveRenders # {})
  /\ [][(nRequests' # nRequests /\ isRenderingVideo) =>
          UNCHANGED <<isRenderingVideo, renders, nDownloads, nAlerts>>]_vars

\* A request was made, and ignored, while a render is in progress.
RequestIgnoredWhileRendering ==
  /\ isRenderingVideo
  /\ Len(renders) >= 1
  /\ nRequests > Len(renders)

\* C9: every render that enters Rendering eventually clears the flag.
RenderReturnsToIdle == isRenderingVideo ~> ~isRenderingVideo

\* A render went through its scenes and the recorder's stop event, the flag
\* was cleared, and a new render was started.
SecondRenderStarted ==
  /\ Len(renders) >= 2
  /\ renders[1].pc = "done"
  /\ isRenderingVideo

\* C10: while a scene is held, the hold time is the clip duration (sample
\* count / 24000 s) plus 500 ms when the entry has narration audio, and
\* max(3000 ms, 100 ms x narrative length) when it has none.
DurationLaw ==
  \A i \in 1..Len(renders) :
    renders[i].pc = "hold" =>
      LET e == Head(renders[i].story) IN
      renders[i].duration =
        IF e.audio # NoAudio
        THEN BufferDurationTicks(FrameCount(e.audio.nbytes)) + PadMs * TicksPerMs
        ELSE Max(MinHoldMs, MsPerChar * e.narrative.len) * TicksPerMs

\* The duration law restricted to narration that decodes, with the flat
\* 3000 ms the code holds a scene whose narration fails to decode.
DurationAsCoded ==
  \A i \in 1..Len(renders) :
    renders[i].pc = "hold" =>
      LET e == Head(renders[i].story) IN
      renders[i].duration =
        IF e.audio = NoAudio
        THEN Max(MinHoldMs, MsPerChar * e.narrative.len) * TicksPerMs
        ELSE IF Decodable(e.audio)
        THEN BufferDurationTicks(FrameCount(e.audio.nbytes)) + PadMs * TicksPerMs
        ELSE MinHoldMs * TicksPerMs

InLoop(r) == r.pc \in {"image", "decode", "hold"}

\* C11: a render that is inside its loop never aborts, whatever the outcome
\* of an image load or a decode: the entry whose asset is awaited is painted
\* (background and text) and then held, an entry whose narration does not
\* decode is held for the silent 3000 ms with no source started, entries
\* leave the story one at a time from the front, the recorder is stopped
\* only when every entry was painted and held, and the render ends with the
\* file downloaded.
AssetFailureNonFatal ==
  /\ [](\A i \in 1..Len(renders) :
          LET r == renders[i] IN
          /\ r.pc = "hold" =>
                /\ r.painted = r.held + 1
                /\ r.held + Len(r.story) = Len(FullStory)
                /\ (Head(r.story).audio # NoAudio /\ ~Decodable(Head(r.story).audio))
                     => r.duration = MinHoldMs * TicksPerMs
          /\ r.pc = "stopping" =>
                r.story = <<>> /\ r.held = Len(FullStory) /\ r.painted = Len(FullStory))
  /\ [][\A i \in 1..Len(renders) :
          LET r == renders[i] IN
          InLoop(r) =>
            /\ renders'[i].pc # "failed"
            /\ nAlerts' = nAlerts
            /\ (r.pc \in {"image", "decode"} /\ renders'[i] # r) =>
                  /\ renders'[i].pc \in {"decode", "hold"}
                  /\ renders'[i].story = r.story
                  /\ renders'[i].painted >= r.held + 1
            /\ (r.pc = "decode" /\ renders'[i] # r /\ ~Decodable(Head(r.story).audio)) =>
                  renders'[i].played = r.played
            /\ (r.pc = "hold" /\ renders'[i] # r) =>
                  /\ renders'[i].held = r.held + 1
                  /\ renders'[i].story = Tail(r.story)]_vars
  /\ \A i \in 1..MaxRequests :
       (Len(renders) >= i /\ InLoop(renders[i]))
         ~> (Len(renders) >= i /\ renders[i].pc = "done")

\* A file was downloaded for a story of two scenes, the first of which has
\* an image (whose load may fail) and narration that does not decode.
FileDespiteBadAssets ==
  /\ nDownloads >= 1
  /\ nAlerts = 0
  /\ Len(FullStory) >= 2
  /\ FullStory[1].image # NoImage
  /\ FullStory[1].audio # NoAudio
  /\ ~Decodable(FullStory[1].audio)

\* C12: a render whose setup throws is aborted: it paints and holds no
\* scene, a notice is shown, the flag is cleared and no file is downloaded
\* for it; files are downloaded only by renders that reached the recorder's
\* stop event.
RenderFailureDeliversNothing ==
  /\ [](\A i \in 1..Len(renders) :
          renders[i].pc = "failed" => renders[i].painted = 0 /\ renders[i].held = 0)
  /\ [](/\ nAlerts = Cardinality({i \in 1..Len(renders) : renders[i].pc = "failed"})
        /\ nDownloads = Cardinality({i \in 1..Len(renders) : renders[i].pc = "done"}))
  /\ [][\A i \in 1..Len(renders') :
          (renders'[i].pc = "failed" /\ (i > Len(renders) \/ renders[i].pc # "failed"))
            => /\ nAlerts' = nAlerts + 1
               /\ nDownloads' = nDownloads
               /\ ~isRenderingVideo']_vars

\* A render failed in its setup: one notice, no file, the flag is clear.
SetupFailedNoFile ==
  /\ Len(renders) >= 1
  /\ renders[1].pc = "failed"
  /\ nAlerts = 1
  /\ nDownloads = 0
  /\ ~isRenderingVideo

\* ------------------------------------------------------------- Session
\* hpChange values a turn may carry, besides none at all.
HpChanges == {-150, -70, 0, 40}

Languages == {"en", "ja"}

ChoiceTexts == {"go on"}

\* JSON.parse of the model's reply: a StoryTurn, or null.
NullTurn == [turn |-> 0, len |-> 0, visual |-> FALSE, hasHp |-> FALSE, hpChange |-> 0]

TurnsOf(t) ==
  {[turn |-> t, len |-> l, visual |-> v, hasHp |-> TRUE, hpChange |-> h] :
     l \in {0, ShortLen}, v \in BOOLEAN, h \in HpChanges}
  \cup
  {[turn |-> t, len |-> l, visual |-> v, hasHp |-> FALSE, hpChange |-> 0] :
     l \in {0, ShortLen}, v \in BOOLEAN}

\* Narration of a turn as generateNarrativeAudio returns it: malformed
\* base64, or one sample.
AppClipShapes == {[b64ok |-> FALSE, nbytes |-> 0], [b64ok |-> TRUE, nbytes |-> 2]}

Min(a, b) == IF a <= b THEN a ELSE b

ClampHp_NoFloor(hp, d) == Min(100, hp + d)

\* Math.min(100, Math.max(0, prev.hp + newTurn.hpChange))
ClampHp(hp, d) == Min(100, Max(0, hp + d))

\* if (newTurn.hpChange) setGameContext(prev => ({...prev, hp: ...})):
\* an absent hpChange and 0 are falsy.
ApplyHpChange(ctx, t) ==
  IF t.hasHp /\ t.hpChange # 0
  THEN [ctx EXCEPT !.hp = ClampHp(ctx.hp, t.hpChange)]
  ELSE ctx

\* JSON.stringify of a StoryTurn: the key hpChange is written only when the
\* turn has one.
StringifyTurn(t) ==
  IF t.hasHp
  THEN <<"narrative", Narrative(t), "visualDescription", t.visual, "hpChange", t.hpChange>>
  ELSE <<"narrative", Narrative(t), "visualDescription", t.visual>>

\* JSON.parse of a stringified StoryTurn.
ParseTurn(j) ==
  [turn |-> j[2].turn, len |-> j[2].len, visual |-> j[4],
   hasHp |-> Len(j) >= 6, hpChange |-> IF Len(j) >= 6 THEN j[6] ELSE 0]

Archive_AtFront(log, e) == <<e>> \o log

\* setStoryLog(prev => [...prev, entry])
Archive(log, e) == Append(log, e)

WithModelItem_Alone(hist, t) == <<[role |-> "model", text |-> StringifyTurn(t)]>>

\* setHistory([...updatedHistory, { role: 'model', text: JSON.stringify(newTurn) }])
WithModelItem(hist, t) == Append(hist, [role |-> "model", text |-> StringifyTurn(t)])

\* The entry archived by handleChoice.
ArchivedEntry ==
  [narrative |-> Narrative(currentTurn), image |-> currentImage, audio |-> currentAudio]

\* The code after `await generateMedia(turn)` and the finally block.
FinishOp(t, hist) ==
  /\ isProcessing' = FALSE
  /\ pending' = NoPending
  /\ IF pending.op = "start"
     THEN /\ gameState' = "PLAYING"
          /\ history' = <<[role |-> "model", text |-> StringifyTurn(t)]>>
          /\ storyLog' = <<>>
          /\ nChoices' = 0
     ELSE /\ history' = hist
          /\ UNCHANGED <<gameState, storyLog, nChoices>>

\* startGame(name, theme, language) up to `await generateStoryStart`.
StartGameWith(n, theme, lang) ==
  /\ gameState = "SETUP"
  /\ ~isProcessing
  /\ gameContext' = [theme |-> theme, characterName |-> n, hp |-> 100,
                      language |-> lang]
  /\ isProcessing' = TRUE
  /\ pending' = [NoPending EXCEPT !.op = "start", !.pc = "turn"]
  /\ lastAlert' = "none"
  /\ book' = NoBook
  /\ UNCHANGED <<gameState, history, saved, nTurns, nChoices>>
  /\ UNCHANGED <<appVars, currentAudio>>
  /\ UNCHANGED notSession

\* A start with a name and a theme: the start button needs a name and is
\* disabled while generating.
StartGame == \E lang \in Languages : StartGameWith("Ann", Str("space"), lang)

\* handleChoice up to `await generateStoryTurn`. Choices are offered only
\* while not processing.
HandleChoice ==
  /\ gameState = "PLAYING"
  /\ ~isProcessing
  /\ currentTurn.turn # 0
  /\ Len(storyLog) < MaxTurns
  /\ \E choice \in ChoiceTexts :
       pending' = [NoPending EXCEPT !.op = "choice", !.pc = "turn",
                     !.updatedHistory = Append(history, [role |-> "user", text |-> choice])]
  /\ storyLog' = Archive(storyLog, ArchivedEntry)
  /\ currentAudio' = NoAudio
  /\ isProcessing' = TRUE
  /\ nChoices' = nChoices + 1
  /\ lastAlert' = "none"
  /\ book' = NoBook
  /\ UNCHANGED <<gameState, gameContext, history, saved, nTurns>>
  /\ UNCHANGED <<currentTurn, currentImage>>
  /\ UNCHANGED notSession

MediaRequested_ImageFirst(t) ==
  [NoPending EXCEPT !.op = pending.op, !.pc = "media", !.turn = t,
                    !.img = IF t.visual THEN "pending" ELSE "none",
                    !.aud = IF t.len > 0 /\ ~t.visual THEN "pending" ELSE "none"]

\* generateMedia up to `await Promise.all(promises)`: one request per asset
\* the turn asks for; the narration request first clears currentAudio.
MediaRequested(t) ==
  [NoPending EXCEPT !.op = pending.op, !.pc = "media", !.turn = t,
                    !.img = IF t.visual THEN "pending" ELSE "none",
                    !.aud = IF t.len > 0 THEN "pending" ELSE "none"]

\* `await generateStoryStart / generateStoryTurn` settles. The service
\* never rejects; its reply parses to a StoryTurn or to null.
TurnGenerated ==
  /\ pending.pc = "turn"
  /\ nTurns < MaxTurns
  /\ nTurns' = nTurns + 1
  /\ \E t \in TurnsOf(nTurns + 1) \cup {NullTurn} :
       IF t.turn = 0
       THEN \* null: generateMedia(null) or newTurn.hpChange throws
            /\ isProcessing' = FALSE
            /\ pending' = NoPending
            /\ IF pending.op = "start"
               THEN currentTurn' = NoTurn /\ lastAlert' = "start"
               ELSE lastAlert' = "none" /\ UNCHANGED currentTurn
            /\ UNCHANGED <<gameState, gameContext, history, storyLog, nChoices,
                           currentImage, currentAudio>>
       ELSE /\ currentTurn' = t
            /\ gameContext' = IF pending.op = "choice"
                              THEN ApplyHpChange(gameContext, t)
                              ELSE gameContext
            /\ currentAudio' = IF t.len > 0 THEN NoAudio ELSE currentAudio
            /\ LET hist == IF pending.op = "choice"
                           THEN WithModelItem(pending.updatedHistory, t)
                           ELSE history
               IN  IF t.visual \/ t.len > 0
                   THEN /\ pending' = MediaRequested(t)
                        /\ history' = hist
                        /\ UNCHANGED <<isProcessing, gameState, storyLog, nChoices>>
                   ELSE FinishOp(t, hist)
            /\ lastAlert' = "none"
            /\ UNCHANGED currentImage
  /\ book' = NoBook
  /\ UNCHANGED saved
  /\ UNCHANGED notSession

\* generateSceneImage settles: if (img) setCurrentImage(img).
ImageGenerated ==
  /\ pending.pc = "media"
  /\ pending.img = "pending"
  /\ \E img \in {NoImage, pending.turn.turn} :
       currentImage' = IF img # NoImage THEN img ELSE currentImage
  /\ IF pending.aud = "pending"
     THEN /\ pending' = [pending EXCEPT !.img = "done"]
          /\ UNCHANGED <<isProcessing, gameState, history, storyLog, nChoices>>
     ELSE FinishOp(pending.turn, history)
  /\ lastAlert' = "none"
  /\ book' = NoBook
  /\ UNCHANGED <<gameContext, saved, nTurns, currentTurn, currentAudio>>
  /\ UNCHANGED notSession

\* generateNarrativeAudio settles: if (audio) setCurrentAudio(audio).
AudioGenerated ==
  /\ pending.pc = "media"
  /\ pending.aud = "pending"
  /\ \E audio \in {NoAudio} \cup {MkClip(pending.turn.turn, sh) : sh \in AppClipShapes} :
       currentAudio' = IF audio # NoAudio THEN audio ELSE currentAudio
  /\ IF pending.img = "pending"
     THEN /\ pending' = [pending EXCEPT !.aud = "done"]
          /\ UNCHANGED <<isProcessing, gameState, history, storyLog, nChoices>>
     ELSE FinishOp(pending.turn, history)
  /\ lastAlert' = "none"
  /\ book' = NoBook
  /\ UNCHANGED <<gameContext, saved, nTurns, currentTurn, currentImage>>
  /\ UNCHANGED notSession

SavedEntry_KeepsMedia(e) == e

\* storyLog.map(s => ({ narrative: s.narrative }))
SavedEntry(e) == [narrative |-> e.narrative]

\* JSON.stringify(saveState)
SaveStateText ==
  [gameContext |-> gameContext,
   history |-> history,
   storyLog |-> [i \in 1..Len(storyLog) |-> SavedEntry(storyLog[i])],
   currentTurn |-> StringifyTurn(currentTurn)]

\* A log entry as read back from JSON: a key that was not written reads as
\* undefined, which is no image and no audio.
EntryOfJson(j) ==
  [narrative |-> j.narrative,
   image |-> IF "image" \in DOMAIN j THEN j.image ELSE NoImage,
   audio |-> IF "audio" \in DOMAIN j THEN j.audio ELSE NoAudio]

\* Stored values that saveGame did not write: text that JSON.parse rejects,
\* the text null, and the text {}.
CorruptValues == {[json |-> "unparseable"], [json |-> "null"], [json |-> "{}"]}

Corrupted(store) == store.present /\ "json" \in DOMAIN store.text

\* handleSaveClick: onSave(), then setShowSaveNotif(true). onSave is
\* saveGame: localStorage.setItem may throw (quota), which saveGame catches
\* itself. The button exists only while GameInterface shows a turn.
SaveGame ==
  /\ gameState = "PLAYING"
  /\ currentTurn.turn # 0
  /\ \E stored \in BOOLEAN :
       IF stored
       THEN saved' = [present |-> TRUE, text |-> SaveStateText] /\ lastAlert' = "none"
       ELSE lastAlert' = "save" /\ UNCHANGED saved
  /\ showSaveNotif' = TRUE
  /\ book' = NoBook
  /\ UNCHANGED <<gameState, gameContext, history, isProcessing, pending, nTurns,
                 nChoices>>
  /\ UNCHANGED <<appVars, currentAudio>>
  /\ UNCHANGED <<notSaveClick, setupVars>>

\* setTimeout(() => setShowSaveNotif(false), 2000)
NotifTimeout ==
  /\ showSaveNotif
  /\ showSaveNotif' = FALSE
  /\ lastAlert' = "none"
  /\ book' = NoBook
  /\ UNCHANGED <<gameState, gameContext, history, isProcessing, pending, saved,
                 nTurns, nChoices>>
  /\ UNCHANGED <<appVars, currentAudio>>
  /\ UNCHANGED <<notSaveClick, setupVars>>

\* loadGame: offered by GameSetup when a save was found and nothing is being
\* generated. JSON.parse throws on text that is no JSON, state.gameContext
\* throws when the text is null; the catch shows a notice. Any other value
\* is taken as it is: the properties {} does not have are undefined.
LoadGame ==
  /\ gameState = "SETUP"
  /\ ~isProcessing
  /\ saved.present
  /\ IF Corrupted(saved) /\ saved.text.json \in {"unparseable", "null"}
     THEN /\ lastAlert' = "load"
          /\ UNCHANGED <<gameContext, history, gameState, nChoices>>
          /\ UNCHANGED <<appVars, currentAudio>>
     ELSE IF Corrupted(saved)
     THEN /\ gameContext' = Undefined
          /\ history' = Undefined
          /\ storyLog' = Undefined
          /\ currentTurn' = NoTurn
          /\ currentImage' = NoImage
          /\ currentAudio' = NoAudio
          /\ gameState' = "PLAYING"
          /\ nChoices' = 0
          /\ lastAlert' = "none"
     ELSE /\ gameContext' = saved.text.gameContext
          /\ history' = saved.text.history
          /\ storyLog' = [i \in 1..Len(saved.text.storyLog) |->
                            EntryOfJson(saved.text.storyLog[i])]
          /\ currentTurn' = ParseTurn(saved.text.currentTurn)
          /\ currentImage' = NoImage
          /\ currentAudio' = NoAudio
          /\ gameState' = "PLAYING"
          /\ nChoices' = Len(saved.text.storyLog)
          /\ lastAlert' = "none"
  /\ book' = NoBook
  /\ UNCHANGED <<isProcessing, pending, saved, nTurns>>
  /\ UNCHANGED notSession

\* The page is loaded again: every useState starts over, the store is kept,
\* a call in flight is lost.
Reload ==
  /\ gameState = "PLAYING" \/ isProcessing
  /\ gameState' = "SETUP"
  /\ gameContext' = InitialContext
  /\ history' = <<>>
  /\ isProcessing' = FALSE
  /\ pending' = NoPending
  /\ lastAlert' = "none"
  /\ nChoices' = 0
  /\ storyLog' = <<>>
  /\ currentTurn' = NoTurn
  /\ currentImage' = NoImage
  /\ currentAudio' = NoAudio
  /\ showSaveNotif' = FALSE
  /\ name' = ""
  /\ customTheme' = ""
  /\ selectedThemeKey' = FirstThemeKey
  /\ language' = "zh"
  /\ book' = NoBook
  /\ UNCHANGED <<saved, nTurns>>
  /\ UNCHANGED notSaveClick

\* The stored value is replaced from outside the session (another tab,
\* another version of the page, a truncated write).
StoreCorrupted ==
  /\ saved.present
  /\ \E v \in CorruptValues : saved' = [present |-> TRUE, text |-> v]
  /\ saved' # saved
  /\ lastAlert' = "none"
  /\ book' = NoBook
  /\ UNCHANGED <<gameState, gameContext, history, isProcessing, pending, nTurns,
                 nChoices>>
  /\ UNCHANGED <<appVars, currentAudio>>
  /\ UNCHANGED notSession

\* ------------------------------------------------- Storybook Exporter
WavHeaderLen == 44

NoTag == [wavOf |-> 0, bytes |-> 0]

\* [...storyLog, {narrative: currentTurn?.narrative || '', image: currentImage,
\*   audio: currentAudio}]
StorybookInput ==
  Append(storyLog, [narrative |-> Narrative(currentTurn), image |-> currentImage,
                    audio |-> currentAudio])

StorybookStory_NoFilter(story) == story

\* .filter(s => s.narrative)
StorybookStory(story) == SelectSeq(story, LAMBDA e : e.narrative.len > 0)

AudioTag_Always(audio) ==
  IF audio = NoAudio THEN NoTag
  ELSE [wavOf |-> audio.id, bytes |-> WavHeaderLen + audio.nbytes]

\* if (entry.audio) { try { pcmToWav(entry.audio) ... } catch {} }: atob
\* throws on malformed base64 and the section gets no audio control.
AudioTag(audio) ==
  IF audio = NoAudio \/ DecodeBase64Throws(audio) THEN NoTag
  ELSE [wavOf |-> audio.id, bytes |-> WavHeaderLen + audio.nbytes]

\* One chapter-container of contentHtml.
Section(e) == [narrative |-> e.narrative, image |-> e.image, audio |-> AudioTag(e.audio)]

\* generateStorybook: the document is built and downloaded.
GenerateStorybook ==
  /\ gameState = "PLAYING"
  /\ LET story == StorybookStory(StorybookInput) IN
     book' = [exported |-> TRUE,
              sections |-> [i \in 1..Len(story) |-> Section(story[i])],
              of |-> StorybookInput]
  /\ lastAlert' = "none"
  /\ UNCHANGED <<gameState, gameContext, history, isProcessing, pending, saved,
                 nTurns, nChoices>>
  /\ UNCHANGED <<appVars, currentAudio>>
  /\ UNCHANGED notSession

SessionNext ==
  \/ StartGame
  \/ TurnGenerated
  \/ ImageGenerated
  \/ AudioGenerated
  \/ HandleChoice
  \/ GenerateStorybook

InitSession ==
  /\ SessionIdle /\ AppIdle /\ VoiceRest /\ currentAudio = NoAudio
  /\ DroneIdle /\ VideoIdle /\ CodecIdle

SpecSession == InitSession /\ [][SessionNext]_vars

\* The positions of a story whose narrative is not empty.
NonEmptyAt(story) == {i \in 1..Len(story) : story[i].narrative.len > 0}

\* The position in the story of its k-th entry with a narrative.
NthNonEmpty(story, k) ==
  CHOOSE i \in NonEmptyAt(story) :
    Cardinality({j \in NonEmptyAt(story) : j <= i}) = k

\* C13: in an exported document no section has an empty narrative and the
\* entries with a narrative have exactly one section each: there are as many
\* sections as such entries, the k-th section being that of the k-th one.
StorybookFiltering ==
  book.exported =>
    /\ Len(book.sections) = Cardinality(NonEmptyAt(book.of))
    /\ \A k \in 1..Len(book.sections) :
         /\ book.sections[k].narrative.len > 0
         /\ book.sections[k].narrative = book.of[NthNonEmpty(book.of, k)].narrative

\* A document was exported from a story of two entries with a narrative
\* and one, which has an image, without.
ExportSkippedEmptyEntry ==
  /\ book.exported
  /\ Len(book.sections) = 2
  /\ \E i \in 1..Len(book.of) :
       book.of[i].narrative.len = 0 /\ book.of[i].image # NoImage

\* Order and images of C14: the sections follow the log order with the
\* current turn last, and a section has an image element exactly when its
\* entry has an image.
SectionsInOrder ==
  /\ book.of = StorybookInput
  /\ \A k \in 1..Len(book.sections) :
       LET e == book.of[NthNonEmpty(book.of, k)] IN
       /\ book.sections[k].narrative = e.narrative
       /\ book.sections[k].image = e.image
  /\ \A k \in 1..(Len(book.sections) - 1) :
       NthNonEmpty(book.of, k) < NthNonEmpty(book.of, k + 1)
  /\ currentTurn.len > 0 =>
       book.sections[Len(book.sections)].narrative = Narrative(currentTurn)

\* C14 as stated: sections in log order, the current turn last; an image
\* element exactly when the entry has an image; a WAV audio control exactly
\* when the entry has a narration clip.
StorybookContent ==
  book.exported =>
    /\ SectionsInOrder
    /\ \A k \in 1..Len(book.sections) :
         LET e == book.of[NthNonEmpty(book.of, k)] IN
         /\ book.sections[k].audio # NoTag <=> e.audio # NoAudio
         /\ e.audio # NoAudio =>
              book.sections[k].audio = [wavOf |-> e.audio.id,
                                        bytes |-> WavHeaderLen + e.audio.nbytes]

\* C14 amended: as stated, but a section has the WAV audio control exactly
\* when its entry has a narration clip that is well-formed base64; a clip
\* atob rejects leaves its section without audio control.
StorybookContentDecodable ==
  book.exported =>
    /\ SectionsInOrder
    /\ \A k \in 1..Len(book.sections) :
         LET e == book.of[NthNonEmpty(book.of, k)] IN
         /\ book.sections[k].audio # NoTag <=> (e.audio # NoAudio /\ e.audio.b64ok)
         /\ (e.audio # NoAudio /\ e.audio.b64ok) =>
              book.sections[k].audio = [wavOf |-> e.audio.id,
                                        bytes |-> WavHeaderLen + e.audio.nbytes]

\* A document of two sections: the first without image and with an audio
\* control, the second with an image and, its clip being malformed base64,
\* without audio control.
ExportTwoSections ==
  /\ book.exported
  /\ Len(book.of) = 2
  /\ Len(book.sections) = 2
  /\ book.sections[1].image = NoImage
  /\ book.sections[1].audio # NoTag
  /\ book.sections[2].image # NoImage
  /\ book.sections[2].audio = NoTag
  /\ book.of[2].audio # NoAudio
  /\ book.sections[1].narrative.turn < book.sections[2].narrative.turn

\* C18: a choice appends exactly one entry, the current turn's narrative
\* with the current image and audio, at the end of the log, and the log
\* changes in no other way while playing; its entries are in the order of
\* their turns and it is as long as the number of choices made since start.
StoryLogOrder ==
  /\ [](gameState = "PLAYING" => Len(storyLog) = nChoices)
  /\ [](\A i \in 1..Len(storyLog) : \A j \in 1..Len(storyLog) :
          i < j => storyLog[i].narrative.turn <= storyLog[j].narrative.turn)
  /\ [][nChoices' # nChoices =>
          /\ nChoices' = nChoices + 1
          /\ Len(storyLog') = Len(storyLog) + 1
          /\ storyLog'[Len(storyLog')] =
               [narrative |-> Narrative(currentTurn), image |-> currentImage,
                audio |-> currentAudio]
          /\ \A i \in 1..Len(storyLog) : storyLog'[i] = storyLog[i]]_vars
  /\ [][(nChoices' = nChoices /\ gameState = "PLAYING") => storyLog' = storyLog]_vars

\* Two choices were made on two different turns: the log holds the first
\* turn, then the second.
TwoTurnsArchived ==
  /\ nChoices = 2
  /\ Len(storyLog) = 2
  /\ storyLog[1].narrative.turn = 1
  /\ storyLog[2].narrative.turn = 2

\* v clamped into [0, 100].
Clamped(v) == IF v < 0 THEN 0 ELSE IF v > 100 THEN 100 ELSE v

\* C19: hp starts at 100 and is always within [0, 100]; every turn that
\* arrives with hpChange d sets hp to hp + d clamped into [0, 100], and a
\* turn without hpChange leaves hp as it is.
HealthLaw ==
  /\ [](gameContext.hp \in 0..100)
  /\ [][(currentTurn'.turn # 0 /\ currentTurn'.turn # currentTurn.turn) =>
          gameContext'.hp =
            IF currentTurn'.hasHp
            THEN Clamped(gameContext.hp + currentTurn'.hpChange)
            ELSE gameContext.hp]_vars

\* The health law as handleChoice implements it: it holds of the turns
\* that answer a choice; the opening turn of startGame leaves hp at 100
\* whatever its hpChange.
HealthClamp ==
  /\ [](gameContext.hp \in 0..100)
  /\ [](pending.op = "start" => gameContext.hp = 100)
  /\ [][IF pending.op = "choice" /\ currentTurn' # currentTurn
         THEN gameContext'.hp =
                IF currentTurn'.hasHp
                THEN Clamped(gameContext.hp + currentTurn'.hpChange)
                ELSE gameContext.hp
         ELSE pending.op # "none" => gameContext'.hp = gameContext.hp]_vars

\* ---- the media barrier
ImageSettles ==
  /\ pending.pc = "media" /\ pending.img = "pending"
  /\ \/ pending'.pc = "media" /\ pending'.img = "done"
     \/ pending'.pc = "none" /\ pending.aud # "pending"

AudioSettles ==
  /\ pending.pc = "media" /\ pending.aud = "pending"
  /\ \/ pending'.pc = "media" /\ pending'.aud = "done"
     \/ pending'.pc = "none" /\ pending.img # "pending"

\* C22: the media barrier. The image request and the narration request of a
\* new turn are issued in the same step, before either is awaited; while a
\* request is pending the turn is not ready (isProcessing stays true and, for
\* the first turn, the game state stays SETUP), and the step that makes the
\* turn ready is the settling of the last pending request; each pending
\* request can settle whatever the state of the other, and the settling of
\* one, by success or by failure, leaves what the other has set untouched.
MediaBarrier ==
  /\ []((pending.img = "pending" \/ pending.aud = "pending") =>
          /\ isProcessing
          /\ pending.op = "start" => gameState = "SETUP")
  /\ [](pending.img = "pending" => ENABLED ImageGenerated)
  /\ [](pending.aud = "pending" => ENABLED AudioGenerated)
  /\ [][(pending.pc = "turn" /\ currentTurn' # currentTurn /\ currentTurn'.turn # 0) =>
          /\ currentTurn'.visual <=> (pending'.pc = "media" /\ pending'.img = "pending")
          /\ currentTurn'.len > 0 <=> (pending'.pc = "media" /\ pending'.aud = "pending")]_vars
  /\ [][(isProcessing /\ ~isProcessing' /\ pending.pc = "media") =>
          /\ (pending.img = "pending") # (pending.aud = "pending")
          /\ pending'.img # "pending" /\ pending'.aud # "pending"]_vars
  /\ [][ImageSettles => currentAudio' = currentAudio]_vars
  /\ [][AudioSettles =>
          /\ currentImage' = currentImage
          /\ currentAudio' \in {currentAudio} \cup
               {MkClip(pending.turn.turn, sh) : sh \in AppClipShapes}]_vars

\* The first turn asked for an image and for narration; the image request
\* failed, the narration arrived, and the turn is ready with its narration.
ReadyWithNarrationOnly ==
  /\ gameState = "PLAYING"
  /\ ~isProcessing
  /\ storyLog = <<>>
  /\ currentTurn.visual /\ currentTurn.len > 0
  /\ currentImage = NoImage
  /\ currentAudio # NoAudio
  /\ currentAudio.id = currentTurn.turn

\* ---- media and turns
\* The image and the narration of entry e are absent or were generated for
\* the turn whose narrative e holds.
OwnMedia(e) ==
  /\ e.image \in {NoImage, e.narrative.turn}
  /\ e.audio = NoAudio \/ e.audio.id = e.narrative.turn

\* C25: media belongs to its turn: once a turn is ready, the current image
\* and the current audio are absent or the ones generated for the current
\* turn, and so are the image and the audio of every story log entry; no
\* entry carries media generated for an earlier turn, also when the image or
\* the speech of its turn failed or returned nothing.
MediaBelongsToTurn ==
  (gameState = "PLAYING" /\ ~isProcessing) =>
    /\ OwnMedia([narrative |-> Narrative(currentTurn), image |-> currentImage,
                 audio |-> currentAudio])
    /\ \A i \in 1..Len(storyLog) : OwnMedia(storyLog[i])

\* The part of C25 that holds: narration is never carried over, since
\* handleChoice and generateMedia clear it.
AudioBelongsToTurn ==
  (gameState = "PLAYING" /\ ~isProcessing) =>
    /\ currentAudio = NoAudio \/ currentAudio.id = currentTurn.turn
    /\ \A i \in 1..Len(storyLog) :
         storyLog[i].audio = NoAudio \/ storyLog[i].audio.id = storyLog[i].narrative.turn

\* ---- history and story log
IsPrefix(a, b) == Len(a) <= Len(b) /\ SubSeq(b, 1, Len(a)) = a

Alternating(hist) ==
  \A i \in 1..Len(hist) : hist[i].role = IF i % 2 = 1 THEN "model" ELSE "user"

\* Every choice so far was completed: the turns of the log and the current
\* turn are all different (a choice whose turn could not be read archives
\* the current turn and leaves it current).
AllChoicesCompleted ==
  /\ \A i \in 1..Len(storyLog) : storyLog[i].narrative.turn < currentTurn.turn
  /\ \A i, j \in 1..Len(storyLog) :
       i < j => storyLog[i].narrative.turn < storyLog[j].narrative.turn

\* C26: history and story log stay aligned: after startGame and any number
\* of completed choices, when the turn is ready, history has
\* 2 x (story log length) + 1 items whose roles alternate model, user, ...,
\* model; a choice adds one user item and then one model item, in one step,
\* and no item of the history is ever removed or rewritten.
HistoryLogAligned ==
  /\ []((gameState = "PLAYING" /\ ~isProcessing) =>
          /\ Alternating(history)
          /\ Len(history) % 2 = 1
          /\ AllChoicesCompleted => Len(history) = 2 * Len(storyLog) + 1)
  /\ [][gameState = "PLAYING" =>
          /\ IsPrefix(history, history')
          /\ Len(history') - Len(history) \in {0, 2}]_vars

\* One choice was completed: the log has one entry and history the first
\* turn, the choice and the second turn.
AlignedAfterOneChoice ==
  /\ gameState = "PLAYING" /\ ~isProcessing
  /\ AllChoicesCompleted
  /\ Len(storyLog) = 1
  /\ Len(history) = 3
  /\ history[2].role = "user"
  /\ history[3].text = StringifyTurn(currentTurn)

\* The alignment without the condition on the choices: a choice whose turn
\* could not be read has archived an entry and added nothing to history.
HistoryLogAlignedAlways ==
  (gameState = "PLAYING" /\ ~isProcessing) => Len(history) = 2 * Len(storyLog) + 1

\* ------------------------------------------------------ Save and load
\* hp after the turns 2..k of a session were applied to the 100 of startGame.
RECURSIVE HpAfter(_, _)
HpAfter(turns, k) ==
  IF k <= 1 THEN InitialContext.hp
  ELSE ApplyHpChange([InitialContext EXCEPT !.hp = HpAfter(turns, k - 1)], turns[k]).hp

\* history after the turns 1..k: the model's turn, then for each choice the
\* user's text and the model's next turn.
RECURSIVE HistoryAfter(_, _)
HistoryAfter(turns, k) ==
  IF k = 1 THEN <<[role |-> "model", text |-> StringifyTurn(turns[1])]>>
  ELSE HistoryAfter(turns, k - 1) \o
         <<[role |-> "user", text |-> CHOOSE c \in ChoiceTexts : TRUE],
           [role |-> "model", text |-> StringifyTurn(turns[k])]>>

\* The image and the narration a settled turn may have: an image only if it
\* has a visual description, narration only if its narrative is not empty.
MediaOf(t) ==
  {[image |-> img, audio |-> aud] :
     img \in {NoImage} \cup (IF t.visual THEN {t.turn} ELSE {}),
     aud \in {NoAudio} \cup
             (IF t.len > 0 THEN {MkClip(t.turn, sh) : sh \in AppClipShapes} ELSE {})}

\* A session at rest after MaxLog or fewer choices, as saveGame may find it.
SaveInit ==
  /\ \E n \in 0..MaxLog :
     \E turns \in [1..(n + 1) -> UNION {TurnsOf(t) : t \in 1..(MaxLog + 1)}] :
     \E media \in [1..(n + 1) -> UNION {MediaOf(t) : t \in UNION {TurnsOf(k) : k \in 1..(MaxLog + 1)}}] :
       /\ \A i \in 1..(n + 1) : turns[i].turn = i /\ media[i] \in MediaOf(turns[i])
       /\ storyLog = [i \in 1..n |-> [narrative |-> Narrative(turns[i]),
                                       image |-> media[i].image,
                                       audio |-> media[i].audio]]
       /\ currentTurn = turns[n + 1]
       /\ currentImage = media[n + 1].image
       /\ currentAudio = media[n + 1].audio
       /\ history = HistoryAfter(turns, n + 1)
       /\ gameContext = [theme |-> Str("space"), characterName |-> "Ann",
                         hp |-> HpAfter(turns, n + 1), language |-> "en"]
       /\ nTurns = n + 1
       /\ nChoices = n
  /\ gameState = "PLAYING"
  /\ isProcessing = FALSE
  /\ pending = NoPending
  /\ saved = NoSave
  /\ lastAlert = "none"
  /\ book = NoBook
  /\ showSaveNotif = FALSE
  /\ SetupIdle

SaveNext ==
  \/ SaveGame
  \/ NotifTimeout
  \/ LoadGame
  \/ Reload
  \/ HandleChoice

InitSave == SaveInit /\ VoiceRest /\ DroneIdle /\ VideoIdle /\ CodecIdle

SpecSave == InitSave /\ [][SaveNext]_vars

\* What loadGame makes of a stored value.
Loaded(text) ==
  [gameContext |-> text.gameContext,
   history |-> text.history,
   narratives |-> [i \in 1..Len(text.storyLog) |-> text.storyLog[i].narrative],
   currentTurn |-> ParseTurn(text.currentTurn)]

\* The session as far as a save is meant to keep it.
Kept ==
  [gameContext |-> gameContext,
   history |-> history,
   narratives |-> [i \in 1..Len(storyLog) |-> storyLog[i].narrative],
   currentTurn |-> currentTurn]

\* C20: a stored value holds for each log entry its narrative and nothing
\* else; what a save writes reads back as the metadata, history, log
\* narratives and current turn of the moment of saving; a load puts exactly
\* what the stored value reads as into the session, with no media on any
\* entry and no current image or audio.
SaveLoadRoundTrip ==
  /\ [](saved.present =>
          \A i \in 1..Len(saved.text.storyLog) :
            DOMAIN saved.text.storyLog[i] = {"narrative"})
  /\ [][saved' # saved => (saved'.present /\ Loaded(saved'.text) = Kept)]_vars
  /\ [][(gameState = "SETUP" /\ gameState' = "PLAYING") =>
          /\ Kept' = Loaded(saved.text)
          /\ saved' = saved
          /\ \A i \in 1..Len(storyLog') :
               storyLog'[i].image = NoImage /\ storyLog'[i].audio = NoAudio
          /\ currentImage' = NoImage
          /\ currentAudio' = NoAudio]_vars

\* A session saved while a choice was being processed, with media on its
\* log, was loaded: the last log entry is the current turn, nothing is being
\* processed and no entry has media.
LoadedMidTurnSave ==
  /\ gameState = "PLAYING"
  /\ ~isProcessing
  /\ saved.present
  /\ Len(storyLog) = 2
  /\ storyLog[2].narrative.turn = currentTurn.turn
  /\ currentTurn.hasHp
  /\ Kept = Loaded(saved.text)
  /\ currentImage = NoImage

\* ---- the store as the session finds it
StoreNext ==
  \/ SaveGame
  \/ NotifTimeout
  \/ LoadGame
  \/ Reload
  \/ HandleChoice
  \/ StoreCorrupted

SpecStore == InitSave /\ [][StoreNext]_vars

\* Metadata, history, story log, current turn, current media, game state.
SessionState ==
  <<gameContext, history, storyLog, currentTurn, currentImage, currentAudio,
    gameState>>

\* C21: a persistence failure is not fatal and aborts the operation: when
\* the store rejects a write, the notice of saveGame is shown and the stored
\* value and the session state stay as they were; when the store holds an
\* unparseable or corrupted value, a load shows the notice of loadGame and
\* leaves the session state as it was.
PersistenceFailureAborts ==
  /\ [][lastAlert' = "save" => (saved' = saved /\ SessionState' = SessionState)]_vars
  /\ [][(gameState = "SETUP" /\ ~isProcessing /\ Corrupted(saved) /\ saved' = saved)
          => (lastAlert' = "load" /\ SessionState' = SessionState)]_vars

\* The part of C21 that holds: a rejected write, text that is no JSON and
\* the text null each end in a notice with the session state untouched.
ThrowingFailureAborts ==
  /\ [][lastAlert' = "save" => (saved' = saved /\ SessionState' = SessionState)]_vars
  /\ [][(/\ gameState = "SETUP" /\ ~isProcessing /\ Corrupted(saved) /\ saved' = saved
         /\ saved.text.json # "{}")
          => (lastAlert' = "load" /\ SessionState' = SessionState)]_vars

\* The text {} was loaded: no notice, and the session is PLAYING with no
\* metadata, no history, no story log and no turn.
LoadedEmptyObject ==
  /\ gameState = "PLAYING"
  /\ Corrupted(saved)
  /\ gameContext = Undefined
  /\ lastAlert = "none"

\* C28: the 'Saved!' notice is truthful: a save click shows it only when the
\* value was written to the store, and never together with the notice of a
\* rejected write.
SavedNoticeTruthful ==
  /\ [](showSaveNotif => lastAlert # "save")
  /\ [][(~showSaveNotif /\ showSaveNotif') =>
          (saved'.present /\ ~Corrupted(saved') /\ Loaded(saved'.text) = Kept)]_vars

\* The store rejected the write and the 'Saved!' notice is on the screen
\* next to the failure notice.
SavedShownAfterRejectedWrite ==
  /\ showSaveNotif
  /\ lastAlert = "save"
  /\ ~saved.present

\* ---------------------------------------------------------- PCM codecs
ChunkSize == 8192
Int16Scale == 32768

\* A base64 string is a sequence of characters: the 64 digits as 0..63, the
\* padding character, and BadChar for any character outside the alphabet.
PadChar == 64
BadChar == 65

\* new Uint8Array(n) filled element by element: the values f[1..n] held as
\* an array.
ArrayOf(f) == f \o <<>>

\* btoa: three bytes to four digits, the last group padded.
Btoa(bytes) ==
  LET n == Len(bytes) IN
  ArrayOf([k \in 1..(4 * ((n + 2) \div 3)) |->
     LET g == (k - 1) \div 4
         pos == (k - 1) % 4
         b0 == bytes[3 * g + 1]
         b1 == IF 3 * g + 2 <= n THEN bytes[3 * g + 2] ELSE 0
         b2 == IF 3 * g + 3 <= n THEN bytes[3 * g + 3] ELSE 0
         triple == b0 * 65536 + b1 * 256 + b2
     IN  IF pos = 0 THEN triple \div 262144
         ELSE IF pos = 1 THEN (triple \div 4096) % 64
         ELSE IF pos = 2
              THEN IF 3 * g + 2 <= n THEN (triple \div 64) % 64 ELSE PadChar
         ELSE IF 3 * g + 3 <= n THEN triple % 64 ELSE PadChar])

\* atob (forgiving-base64 decode): when the length is a multiple of 4 up to
\* two trailing padding characters are removed.
DataLen(str) ==
  IF Len(str) % 4 = 0 /\ Len(str) > 0 /\ str[Len(str)] = PadChar
  THEN IF str[Len(str) - 1] = PadChar THEN Len(str) - 2 ELSE Len(str) - 1
  ELSE Len(str)

\* atob throws when what is left has a length of 1 modulo 4 or holds a
\* character outside the alphabet.
AtobThrows(str) ==
  \/ DataLen(str) % 4 = 1
  \/ \E k \in 1..DataLen(str) : str[k] \notin 0..63

\* atob of a string it accepts: four digits to three bytes.
Atob(str) ==
  LET n == DataLen(str) IN
  ArrayOf([j \in 1..((n * 3) \div 4) |->
     LET g == (j - 1) \div 3
         pos == (j - 1) % 3
         s0 == str[4 * g + 1]
         s1 == IF 4 * g + 2 <= n THEN str[4 * g + 2] ELSE 0
         s2 == IF 4 * g + 3 <= n THEN str[4 * g + 3] ELSE 0
         s3 == IF 4 * g + 4 <= n THEN str[4 * g + 4] ELSE 0
         triple == s0 * 262144 + s1 * 4096 + s2 * 64 + s3
     IN  IF pos = 0 THEN triple \div 65536
         ELSE IF pos = 1 THEN (triple \div 256) % 256
         ELSE triple % 256])

\* view.setUint32(offset, v, true) and view.setUint16(offset, v, true); the
\* lengths and rates written here are below 2^31, so setUint32 does not wrap.
Uint32LE(v) ==
  <<v % 256, (v \div 256) % 256, (v \div 65536) % 256, (v \div 16777216) % 256>>

Uint16LE(v) == LET w == v % 65536 IN <<w % 256, (w \div 256) % 256>>

\* writeString: the char codes of 'RIFF', 'WAVE', 'fmt ' and 'data'
RiffTag == <<82, 73, 70, 70>>
WaveTag == <<87, 65, 86, 69>>
FmtTag == <<102, 109, 116, 32>>
DataTag == <<100, 97, 116, 97>>

ByteRate_PerSample(r) == r

\* sampleRate * 2
ByteRate(r) == r * 2

\* The 44 bytes written at offsets 0..43 for a payload of len bytes.
WavHeader(len, r) ==
  RiffTag \o Uint32LE(36 + len) \o WaveTag \o FmtTag \o Uint32LE(16) \o
  Uint16LE(1) \o Uint16LE(1) \o Uint32LE(r) \o Uint32LE(ByteRate(r)) \o
  Uint16LE(2) \o Uint16LE(16) \o DataTag \o Uint32LE(len)

RECURSIVE BinaryFrom_DropsPartialChunk(_, _)
BinaryFrom_DropsPartialChunk(bytesAll, i) ==
  IF i + ChunkSize > Len(bytesAll) THEN <<>>
  ELSE SubSeq(bytesAll, i + 1, i + ChunkSize)
         \o BinaryFrom_DropsPartialChunk(bytesAll, i + ChunkSize)

\* for (let i = 0; i < lenAll; i += chunk)
\*   binary += String.fromCharCode.apply(null, bytesAll.subarray(i, i + chunk))
RECURSIVE BinaryFrom(_, _)
BinaryFrom(bytesAll, i) ==
  IF i >= Len(bytesAll) THEN <<>>
  ELSE SubSeq(bytesAll, i + 1, Min(i + ChunkSize, Len(bytesAll)))
         \o BinaryFrom(bytesAll, i + ChunkSize)

\* pcmToWav(pcmBase64, sampleRate); it has no try: atob's exception leaves it.
PcmToWav(pcmBase64, r) ==
  IF AtobThrows(pcmBase64) THEN [kind |-> "throws"]
  ELSE LET payload == Atob(pcmBase64)
           buffer == WavHeader(Len(payload), r) \o payload
       IN  [kind |-> "wav", b64 |-> Btoa(BinaryFrom(buffer, 0))]

Int16At_Unsigned(bytes, i) == bytes[2 * i - 1] + 256 * bytes[2 * i]

\* new Int16Array(buffer)[i - 1]: two bytes, low byte first, two's
\* complement.
Int16At(bytes, i) ==
  LET u == bytes[2 * i - 1] + 256 * bytes[2 * i] IN
  IF u >= 32768 THEN u - 65536 ELSE u

\* An AudioBuffer of createBuffer(1, frames, 24000); channel sample i is
\* data[i] / scale, a 16-bit integer over 32768 being exact in a Float32.
AudioBufferOf(bytes, frames) ==
  [kind |-> "buffer", numberOfChannels |-> 1, sampleRate |-> SampleRate,
   length |-> frames, scale |-> Int16Scale,
   data |-> ArrayOf([i \in 1..frames |-> Int16At(bytes, i)]),
   durationTicks |-> BufferDurationTicks(frames)]

\* decodeAudioData(data, ctx) of GameInterface.tsx
DecodeAudioData(data) ==
  IF DecodeAudioDataThrows(Len(data)) THEN [kind |-> "throws"]
  ELSE AudioBufferOf(data, FrameCount(Len(data)))

\* decodeAudioData(decodeBase64(currentAudio), ctx), as playAudio calls it
DecodeForPlayback(base64) ==
  IF AtobThrows(base64) THEN [kind |-> "throws"]
  ELSE DecodeAudioData(Atob(base64))

\* decodeAudioForVideo(base64, ctx) of App.tsx: atob, Int16Array over the
\* bytes (a RangeError on an odd length), createBuffer(1, length, 24000)
\* (a NotSupportedError on length 0), each sample / 32768.0.
DecodeAudioForVideo(base64) ==
  IF AtobThrows(base64) THEN [kind |-> "throws"]
  ELSE LET bytes == Atob(base64) IN
       IF Len(bytes) % 2 # 0 \/ Len(bytes) \div 2 = 0 THEN [kind |-> "throws"]
       ELSE AudioBufferOf(bytes, Len(bytes) \div 2)

\* ---- inputs of the codecs
SampleValues == {-32768, -1, 0, 1, 32767}

\* The bytes of 16-bit signed samples, low byte first.
BytesOf(samples) ==
  ArrayOf([k \in 1..(2 * Len(samples)) |->
     LET u == (samples[(k + 1) \div 2] + 65536) % 65536 IN
     IF k % 2 = 1 THEN u % 256 ELSE u \div 256])

\* Sample counts whose WAV file ends just before, at and just after the
\* end of the first chunk, and one second of samples (five chunks and a
\* partial one).
LongSampleCounts ==
  {(ChunkSize - WavHeaderLen) \div 2 + d : d \in {-1, 0, 1}} \cup {SampleRate}

ZeroSamples(n) == ArrayOf([i \in 1..n |-> 0])

RampSamples(n) == ArrayOf([i \in 1..n |-> ((i * 257) % 65536) - 32768])

SampleInputs ==
  {ArrayOf(smp) : smp \in UNION {[1..n -> SampleValues] : n \in 0..MaxSamples}}
  \cup {RampSamples(n) : n \in LongSampleCounts}
  \cup {ZeroSamples(SampleRate)}

\* Payloads of an odd number of bytes.
OddPayloads ==
  {BytesOf(smp) \o <<b>> : smp \in {<<>>, <<-1>>, <<32767>>}, b \in {0, 255}}
  \cup {ArrayOf([i \in 1..(ChunkSize - WavHeaderLen + d) |-> (i * 7) % 256]) :
          d \in {-1, 1}}

SampleRates == {8000, 24000, 44100}

\* Strings atob rejects: a character outside the alphabet, lengths of 1
\* modulo 4, padding inside the data.
MalformedStrings == {<<BadChar>>, <<0>>, <<0, 0, 0, 0, 0>>, <<0, PadChar, 0, 0>>}

\* A clip is kept as what it holds: 16-bit samples, or the bytes of a payload
\* that is no whole number of samples, or the text of a string that is no
\* base64.
ClipOfSamples(smp, r) ==
  [rate |-> r, wellFormed |-> TRUE, isSamples |-> TRUE, samples |-> smp,
   bytes |-> <<>>, text |-> <<>>]

ClipOfBytes(bytes, r) ==
  [rate |-> r, wellFormed |-> TRUE, isSamples |-> FALSE, samples |-> <<>>,
   bytes |-> bytes, text |-> <<>>]

ClipMalformed(str) ==
  [rate |-> SampleRate, wellFormed |-> FALSE, isSamples |-> FALSE,
   samples |-> <<>>, bytes |-> <<>>, text |-> str]

\* The PCM payload of a well-formed clip.
PayloadOf(clip) == IF clip.isSamples THEN BytesOf(clip.samples) ELSE clip.bytes

\* The base64 string the codecs are given: part.inlineData.data.
Base64Of(clip) == IF clip.wellFormed THEN Btoa(PayloadOf(clip)) ELSE clip.text

CodecInit ==
  /\ \/ \E smp \in SampleInputs : \E r \in SampleRates :
          /\ Len(smp) > MaxSamples => r = SampleRate
          /\ codecIn = ClipOfSamples(smp, r)
     \/ \E bytes \in OddPayloads : codecIn = ClipOfBytes(bytes, SampleRate)
     \/ \E str \in MalformedStrings : codecIn = ClipMalformed(str)
  /\ codecOut = NoOutput

\* pcmToWav(entry.audio) is called on the clip.
ApplyPcmToWav ==
  /\ codecOut.kind = "none"
  /\ codecOut' = [kind |-> "pcmToWav", result |-> PcmToWav(Base64Of(codecIn), codecIn.rate)]
  /\ UNCHANGED codecIn
  /\ UNCHANGED notCodec

\* playAudio decodes the clip.
ApplyDecodeForPlayback ==
  /\ codecOut.kind = "none"
  /\ codecOut' = [kind |-> "playback", result |-> DecodeForPlayback(Base64Of(codecIn))]
  /\ UNCHANGED codecIn
  /\ UNCHANGED notCodec

\* The video renderer decodes the clip.
ApplyDecodeAudioForVideo ==
  /\ codecOut.kind = "none"
  /\ codecOut' = [kind |-> "video", result |-> DecodeAudioForVideo(Base64Of(codecIn))]
  /\ UNCHANGED codecIn
  /\ UNCHANGED notCodec

CodecNext ==
  \/ ApplyPcmToWav
  \/ ApplyDecodeForPlayback
  \/ ApplyDecodeAudioForVideo

InitCodec ==
  /\ CodecInit /\ VoiceRest /\ currentAudio = NoAudio /\ DroneIdle
  /\ AppIdle /\ VideoIdle /\ SessionIdle

SpecCodec == InitCodec /\ [][CodecNext]_vars

\* ---- a WAV reader, written from the file format and not from pcmToWav
ReadUint32LE(file, off) ==
  file[off + 1] + 256 * file[off + 2] + 65536 * file[off + 3]
    + 16777216 * file[off + 4]

ReadUint16LE(file, off) == file[off + 1] + 256 * file[off + 2]

TagAt(file, off) == SubSeq(file, off + 1, off + 4)

Signed16(u) == IF u >= 32768 THEN u - 65536 ELSE u

\* Reads a canonical 16-bit PCM file: the format chunk, the length of the
\* data chunk, and that many bytes as little-endian samples.
WavReader(file) ==
  IF \/ Len(file) < WavHeaderLen
     \/ TagAt(file, 0) # <<82, 73, 70, 70>>
     \/ TagAt(file, 8) # <<87, 65, 86, 69>>
     \/ TagAt(file, 12) # <<102, 109, 116, 32>>
     \/ TagAt(file, 36) # <<100, 97, 116, 97>>
  THEN [ok |-> FALSE]
  ELSE LET dataLen == ReadUint32LE(file, 40)
           blockAlign == ReadUint16LE(file, 32)
       IN  IF \/ ReadUint16LE(file, 20) # 1
              \/ ReadUint16LE(file, 34) # 16
              \/ blockAlign # 2
              \/ WavHeaderLen + dataLen > Len(file)
           THEN [ok |-> FALSE]
           ELSE [ok |-> TRUE,
                 channels |-> ReadUint16LE(file, 22),
                 sampleRate |-> ReadUint32LE(file, 24),
                 samples |->
                   ArrayOf([i \in 1..(dataLen \div blockAlign) |->
                     Signed16(ReadUint16LE(file, WavHeaderLen + 2 * (i - 1)))])]

\* C15: for every PCM payload of len bytes and every sample rate r, the file
\* pcmToWav returns decodes from base64 to exactly 44 + len bytes: 'RIFF',
\* 36 + len, 'WAVE', 'fmt ', 16, 1 (PCM), 1 (mono), r, 2r, 2 (block align),
\* 16 (bits), 'data', len, all little-endian, then the payload bytes
\* unmodified and in order; so the chunked base64 step has encoded every
\* byte exactly once, in order.
WavHeaderAndPayload ==
  (codecOut.kind = "pcmToWav" /\ codecIn.wellFormed) =>
    /\ codecOut.result.kind = "wav"
    /\ ~AtobThrows(codecOut.result.b64)
    /\ LET file == Atob(codecOut.result.b64)
           payload == PayloadOf(codecIn)
           len == Len(payload)
           r == codecIn.rate
       IN  /\ Len(file) = 44 + len
           /\ TagAt(file, 0) = <<82, 73, 70, 70>>
           /\ ReadUint32LE(file, 4) = 36 + len
           /\ TagAt(file, 8) = <<87, 65, 86, 69>>
           /\ TagAt(file, 12) = <<102, 109, 116, 32>>
           /\ ReadUint32LE(file, 16) = 16
           /\ ReadUint16LE(file, 20) = 1
           /\ ReadUint16LE(file, 22) = 1
           /\ ReadUint32LE(file, 24) = r
           /\ ReadUint32LE(file, 28) = 2 * r
           /\ ReadUint16LE(file, 32) = 2
           /\ ReadUint16LE(file, 34) = 16
           /\ TagAt(file, 36) = <<100, 97, 116, 97>>
           /\ ReadUint32LE(file, 40) = len
           /\ SubSeq(file, 45, 44 + len) = payload

\* pcmToWav has returned the file of a payload of an odd number of bytes that
\* ends one byte after the first 8192-byte chunk.
WavOfOddPayload ==
  /\ codecOut.kind = "pcmToWav"
  /\ codecIn.wellFormed /\ ~codecIn.isSamples
  /\ WavHeaderLen + Len(codecIn.bytes) = ChunkSize + 1
  /\ codecOut.result.kind = "wav"
  /\ Len(Atob(codecOut.result.b64)) = ChunkSize + 1

\* C16: for every sequence S of 16-bit samples, the empty sequence and
\* lengths that are not a multiple of the 8192-byte chunk included, a WAV
\* reader applied to pcmToWav(S) accepts the file and reads from its data
\* chunk samples identical to S, with the same count, at S's rate.
WavRoundTrip ==
  (codecOut.kind = "pcmToWav" /\ codecIn.isSamples) =>
    /\ codecOut.result.kind = "wav"
    /\ ~AtobThrows(codecOut.result.b64)
    /\ LET wav == WavReader(Atob(codecOut.result.b64))
       IN  /\ wav.ok
           /\ Len(wav.samples) = Len(codecIn.samples)
           /\ wav.samples = codecIn.samples
           /\ wav.channels = 1
           /\ wav.sampleRate = codecIn.rate

\* pcmToWav has returned the file of samples, negative ones among them,
\* that fill one whole 8192-byte chunk and two bytes of a second one.
WavOfPartialChunk ==
  /\ codecOut.kind = "pcmToWav"
  /\ codecIn.isSamples
  /\ WavHeaderLen + 2 * Len(codecIn.samples) = ChunkSize + 2
  /\ \E i \in 1..3 : codecIn.samples[i] < 0
  /\ codecOut.result.kind = "wav"
  /\ Len(WavReader(Atob(codecOut.result.b64)).samples) = Len(codecIn.samples)

\* What C17 asks of a decoder's result for a clip of 2n bytes holding the
\* samples smp.
DecodedAs(result, smp) ==
  /\ result.kind = "buffer"
  /\ result.numberOfChannels = 1
  /\ result.sampleRate = 24000
  /\ result.length = Len(smp)
  /\ Len(result.data) = Len(smp)
  /\ result.scale = 32768
  /\ result.data = smp
  /\ (\A i \in 1..Len(smp) : smp[i] = 0) => \A i \in 1..Len(smp) : result.data[i] = 0
  /\ Len(smp) = 24000 => result.durationTicks = 1000 * TicksPerMs

\* C17: for a clip of 2n bytes, both decoders (live playback and video)
\* produce a single-channel 24000 Hz buffer of exactly n samples, sample i
\* being the i-th 16-bit signed little-endian value divided by 32768; an
\* all-zero input gives n zero samples, and 24000 samples give a duration of
\* exactly 1 second.
DecoderLaw ==
  (codecOut.kind \in {"playback", "video"} /\ codecIn.isSamples) =>
    DecodedAs(codecOut.result, codecIn.samples)

\* C17 as the decoders implement it: the law holds for every clip of 2n
\* bytes with n >= 1; for the empty clip (n = 0) both decoders throw, since
\* createBuffer refuses a buffer of no frames.
DecoderLawNonEmpty ==
  (codecOut.kind \in {"playback", "video"} /\ codecIn.isSamples) =>
    IF Len(codecIn.samples) >= 1
    THEN DecodedAs(codecOut.result, codecIn.samples)
    ELSE codecOut.result.kind = "throws"

\* The video decoder has decoded one second of samples, negative ones among
\* them, to a buffer of one second.
DecodedOneSecond ==
  /\ codecOut.kind = "video"
  /\ codecIn.isSamples
  /\ Len(codecIn.samples) = SampleRate
  /\ \E i \in 1..3 : codecIn.samples[i] < 0
  /\ codecOut.result.kind = "buffer"
  /\ codecOut.result.durationTicks = 1000 * TicksPerMs

\* ---------------------------------------------------------------------------
\* GameSetup: the setup form and its start button
\* ---------------------------------------------------------------------------

\* SUPPORTED_LANGUAGES of GameSetup.
SUPPORTED_LANGUAGES == <<"en", "zh", "ja">>

\* DEFAULT_THEMES_KEYS: one button of the form per key.
DEFAULT_THEMES_KEYS ==
  <<"Cyberpunk Detective", "High Fantasy Quest", "Cosmic Horror",
    "Post-Apocalyptic Survival", "Victorian Mystery", "Wacky Cartoon Physics",
    "Space Opera", "Western Frontier", "Ninja Assassin", "Zombie Outbreak",
    "Pirate Adventure", "Steampunk Revolution", "Fairy Tale Twist",
    "Noir Thriller", "Superhero Origin", "Time Travel Paradox",
    "Vampire Romance", "Ancient Egypt", "Viking Saga", "Jurassic Survival",
    "Deep Sea Exploration", "Haunted Mansion", "Alien Invasion",
    "School of Magic", "Spy Espionage", "Gladiator Arena",
    "Jungle Expedition", "Robot Uprising", "Medieval Politics",
    "Dream World">>

\* The keys of the `themes` table of TRANSLATIONS; every language has the
\* same six.
TranslatedKeys ==
  {"Cyberpunk Detective", "High Fantasy Quest", "Cosmic Horror",
   "Post-Apocalyptic Survival", "Victorian Mystery", "Wacky Cartoon Physics"}

\* getTranslation(lang).themes. The English table maps a key to itself; the
\* Chinese and Japanese texts are written here as the language tag and the
\* key they translate.
ThemesOf(lang) ==
  [k \in TranslatedKeys |->
     CASE lang = "en" -> k
       [] lang = "zh" -> "zh: " \o k
       [] lang = "ja" -> "ja: " \o k]

\* t.themes[selectedThemeKey]: a property read, undefined for a key the
\* table does not have.
ThemeIn(lang, key) ==
  IF key \in DOMAIN ThemesOf(lang) THEN Str(ThemesOf(lang)[key]) ELSE Undefined

\* What the player can type into the name field.
TypedNames == {"", " ", "Ann", " Ann "}

\* What the player can type into the custom theme field.
TypedThemes == {"", "  ", "Moon base"}

\* String.prototype.trim on the typed texts.
Trim(text) ==
  CASE text \in {"", " ", "  "} -> ""
    [] text \in {"Ann", " Ann "} -> "Ann"
    [] text = "Moon base" -> "Moon base"

\* onChange of the name field.
SetName ==
  /\ gameState = "SETUP"
  /\ \E text \in TypedNames : name' = text
  /\ name' # name
  /\ UNCHANGED <<customTheme, selectedThemeKey, language>>
  /\ UNCHANGED <<voiceVars, droneVars, appVars, videoVars, sessionVars,
                 codecVars, notifVars>>

\* onChange of the custom theme field.
SetCustomTheme ==
  /\ gameState = "SETUP"
  /\ \E text \in TypedThemes : customTheme' = text
  /\ customTheme' # customTheme
  /\ UNCHANGED <<name, selectedThemeKey, language>>
  /\ UNCHANGED <<voiceVars, droneVars, appVars, videoVars, sessionVars,
                 codecVars, notifVars>>

\* onClick of a theme button: selects the key and clears the custom theme.
SelectTheme ==
  /\ gameState = "SETUP"
  /\ \E i \in DOMAIN DEFAULT_THEMES_KEYS :
       selectedThemeKey' = DEFAULT_THEMES_KEYS[i]
  /\ customTheme' = ""
  /\ <<selectedThemeKey', customTheme'>> # <<selectedThemeKey, customTheme>>
  /\ UNCHANGED <<name, language>>
  /\ UNCHANGED <<voiceVars, droneVars, appVars, videoVars, sessionVars,
                 codecVars, notifVars>>

\* onClick of a language button.
SetLanguage ==
  /\ gameState = "SETUP"
  /\ \E i \in DOMAIN SUPPORTED_LANGUAGES : language' = SUPPORTED_LANGUAGES[i]
  /\ language' # language
  /\ UNCHANGED <<name, customTheme, selectedThemeKey>>
  /\ UNCHANGED <<voiceVars, droneVars, appVars, videoVars, sessionVars,
                 codecVars, notifVars>>

\* handleStart's themeToUse: the custom theme when its trimmed text is
\* truthy, else the table's entry for the selected key.
ThemeToUse ==
  IF Trim(customTheme) # "" THEN Str(customTheme)
  ELSE ThemeIn(language, selectedThemeKey)

\* handleStart, behind the start button (disabled without a name and while
\* generating): onStart(name, themeToUse, language) is App's startGame.
HandleStart ==
  /\ Trim(name) # ""
  /\ StartGameWith(name, ThemeToUse, language)

SetupNext ==
  \/ SetName
  \/ SetCustomTheme
  \/ SelectTheme
  \/ SetLanguage
  \/ HandleStart

SpecSetup == InitSession /\ [][SetupNext]_vars

\* The theme argument is a string that is not empty.
NonEmptyString(value) == "string" \in DOMAIN value /\ value.string # ""

\* C27: for every selectable theme key and every language, onStart is called
\* only with a non-blank character name and with a theme that is a defined,
\* non-empty string: the custom theme when it is non-blank, otherwise the
\* translation of the selected theme key in the chosen language.
StartParametersWellFormed ==
  [][HandleStart =>
       /\ Trim(gameContext'.characterName) # ""
       /\ gameContext'.language = language
       /\ NonEmptyString(gameContext'.theme)
       /\ gameContext'.theme =
            IF Trim(customTheme) # "" THEN Str(customTheme)
            ELSE ThemeIn(language, selectedThemeKey)]_vars

\* What handleStart does guarantee: the name is never blank, and the theme is
\* the non-empty string the form shows whenever a custom theme is typed or
\* the selected key is one the translation table has.
StartParametersOfTranslatedKeys ==
  [][HandleStart =>
       /\ Trim(gameContext'.characterName) # ""
       /\ gameContext'.characterName = name
       /\ gameContext'.language = language
       /\ (Trim(customTheme) # "" \/ selectedThemeKey \in TranslatedKeys) =>
            /\ NonEmptyString(gameContext'.theme)
            /\ gameContext'.theme =
                 IF Trim(customTheme) # "" THEN Str(customTheme)
                 ELSE Str(ThemesOf(language)[selectedThemeKey])]_vars

\* A game was started from a key the translation table lacks, with no custom
\* theme: startGame received undefined as its theme.
StartedWithUndefinedTheme ==
  /\ isProcessing
  /\ pending.op = "start"
  /\ gameContext.theme = Undefined

====
